---- MODULE Spec2Model ----
(***************************************************************************)
(* keploy-agent: the terminal client (src/main.go) that supervises a       *)
(* worker process and folds its line-delimited envelopes into a            *)
(* transcript, and the worker's test-generation tool                       *)
(* (src/agent/src/tools/generate_unit_tests.ts).                           *)
(*                                                                         *)
(* Texts are sequences of characters over a small alphabet:                *)
(*   "a"  an ordinary character that is no JSON escape letter              *)
(*   "n"  an ordinary letter that is a JSON escape letter (\n)             *)
(*   "Q"  the double quote, "B" the backslash, "NL" the newline character  *)
(* Timestamps (time.Now) and the rendered viewport are left out: no        *)
(* handler reads them back.                                                *)
(***************************************************************************)
EXTENDS Integers, Sequences, FiniteSets, Bags, TLC

\* ------------------------------------------------------------------ bounds
MaxTextLen == 3      \* longest text given to the encoders
MaxInputLen == 1     \* longest chat input typed (the textarea's CharLimit is 500)
MaxKeyLen == 1       \* longest API key typed (the textinput's CharLimit is 200)
MaxWorkers == 2      \* worker processes spawned in one session
MaxStarts == 2       \* startAgent commands made in one session
MaxChats == 2        \* chat sends accepted in one session
MaxLines == 4        \* lines the workers write in one session
MaxMessages == 5     \* transcript entries appended in one session
MaxTranscript == 1   \* entries of a transcript the fold alone starts from, after the banner
MaxRun == 2          \* envelopes waiting when the fold alone starts
MaxToolLines == 16   \* lines one invocation of the tool may write
MaxSignals == 2      \* signals found in the two outputs of one test run

\* ------------------------------------------------------- program constants
maxRetries == 3      \* executeTestsWithRetry (generate_unit_tests.ts 291)

VARIABLES
    \* the client's Model (src/main.go)
    state, isProcessing, agentReady, messages,
    agentProcess, agentStdin, agentStdout, err,
    apiKeyInput, chatInput,
    \* the runtime: commands not yet run, their results not yet handled
    cmds, inbox, quit,
    \* the client process: its exit status (NotExited while it runs)
    exitCode,
    \* the worker processes and their pipes
    nSpawned, alive, stdinPipe, stdoutPipe,
    \* a worker's position, its tool's attempt counter, lines the workers
    \* may still write
    wpc, attempt, budget,
    \* the file at the derived test path; per worker, the tool's locals: the
    \* content last generated, the error text of the last failed execution,
    \* the guidance of the last regeneration prompt, the value the invocation
    \* returned; and its history: the executions of the test runner
    artifact, generated, errorMessage, errorGuidance, toolResult, execs,
    \* history: chat sends accepted, startAgent commands made, the transcript
    \* length before a run of content chunks (-1 outside a run)
    nChats, nStarts, runBase

clientVars == <<state, isProcessing, agentReady, messages,
                agentProcess, agentStdin, agentStdout, err,
                apiKeyInput, chatInput>>
runtimeVars == <<cmds, inbox, quit, exitCode>>
toolVars == <<artifact, generated, errorMessage, errorGuidance, toolResult, execs>>
workerVars == <<nSpawned, alive, stdinPipe, stdoutPipe, wpc, attempt, budget, toolVars>>
historyVars == <<nChats, nStarts, runBase>>
vars == <<clientVars, runtimeVars, workerVars, historyVars>>

\* ------------------------------------------------------------------ texts
Chars == {"a", "n", "Q", "B", "NL"}

Strs(n) == UNION {[1..k -> Chars] : k \in 0..n}

\* strings.TrimSpace: leading and trailing white space removed.
IsSpace(c) == c = "NL"

RECURSIVE TrimLeft(_)
TrimLeft(s) ==
    IF s = <<>> THEN <<>>
    ELSE IF IsSpace(Head(s)) THEN TrimLeft(Tail(s)) ELSE s

RECURSIVE TrimRight(_)
TrimRight(s) ==
    IF s = <<>> THEN <<>>
    ELSE IF IsSpace(s[Len(s)]) THEN TrimRight(SubSeq(s, 1, Len(s) - 1)) ELSE s

TrimSpace(s) == TrimRight(TrimLeft(s))

Contains(s, c) == \E i \in 1..Len(s) : s[i] = c

\* strings.ReplaceAll(message, "\"", "\\\""): a backslash before every quote.
RECURSIVE EscapeQuotes(_)
EscapeQuotes(s) ==
    IF s = <<>> THEN <<>>
    ELSE IF Head(s) = "Q" THEN <<"B", "Q">> \o EscapeQuotes(Tail(s))
    ELSE <<Head(s)>> \o EscapeQuotes(Tail(s))

\* The payload {"<field>":"<body>"} as encoding/json's scanner reads it from
\* the opening quote of the value on: body, then the closing quote and brace.
\* st: "str" in the string, "esc" after a backslash, "end" after the closing
\* quote, "done" after the closing brace, "err" invalid.
ScanStep(st, c) ==
    CASE st = "str"  -> IF c = "Q" THEN "end"
                        ELSE IF c = "B" THEN "esc"
                        ELSE IF c = "NL" THEN "err"      \* control character
                        ELSE "str"
      [] st = "esc"  -> IF c \in {"Q", "B", "n"} THEN "str" ELSE "err"
      [] st = "end"  -> IF c = "RB" THEN "done" ELSE "err"
      [] st = "done" -> "err"
      [] OTHER       -> "err"

RECURSIVE Scan(_, _)
Scan(st, s) == IF s = <<>> THEN st ELSE Scan(ScanStep(st, Head(s)), Tail(s))

\* json.Marshal of a json.RawMessage compacts it, which fails on invalid JSON.
RawValid(body) == Scan("str", body \o <<"Q", "RB">>) = "done"

\* The value of a JSON string literal's body (valid bodies only).
RECURSIVE Unescape(_)
Unescape(s) ==
    IF s = <<>> THEN <<>>
    ELSE IF Head(s) = "B" /\ Len(s) >= 2
         THEN <<(IF s[2] = "n" THEN "NL" ELSE s[2])>> \o Unescape(Tail(Tail(s)))
    ELSE <<Head(s)>> \o Unescape(Tail(s))

\* A line on the worker's input: <<>> is the empty line, otherwise the
\* envelope's type, then the characters of the payload string's body.
\* json.Marshal's error is dropped, so an invalid payload leaves msgBytes nil
\* and only the newline is written.
EnvelopeLine(type, body) == IF RawValid(body) THEN <<type>> \o body ELSE <<>>

InitLine(apiKey) == EnvelopeLine("init", apiKey)

ChatLine(message) == EnvelopeLine("chat", EscapeQuotes(message))

\* Parsing one line as an envelope (json.Unmarshal): ok, type and payload text.
NoEnvelope == [ok |-> FALSE, type |-> "", text |-> <<>>]

ParseLine(line) ==
    IF line = <<>> THEN NoEnvelope
    ELSE IF ~RawValid(Tail(line)) THEN NoEnvelope
    ELSE [ok |-> TRUE, type |-> Head(line), text |-> Unescape(Tail(line))]

\* --------------------------------------------------------------- data model
Workers == 1..MaxWorkers
Nil == 0                      \* a nil process or pipe reference

\* A ChatMessage of the transcript (Timestamp left out).
Entry(role, content, isError) ==
    [Role |-> role, Content |-> content, IsError |-> isError]

\* A line on a worker's output. kind: "env" a JSON object, "empty", "garbage"
\* (not JSON), "toolong" (longer than the scanner's largest token).
EnvLine(type, status, content, tool) ==
    [kind |-> "env", type |-> type, status |-> status, content |-> content, tool |-> tool]

OtherLine(kind) ==
    [kind |-> kind, type |-> "", status |-> "", content |-> <<>>, tool |-> ""]

NoLine == OtherLine("none")

\* Commands (tea.Cmd) carry what the Model held when they were made.
Cmd(op, h, text) == [op |-> op, h |-> h, text |-> text]

\* Messages (tea.Msg) that commands return to Update.
Msg(kind, w, line, e) == [kind |-> kind, w |-> w, line |-> line, e |-> e]

AddTo(bag, x) == bag (+) SetToBag({x})
RemoveFrom(bag, x) == bag (-) SetToBag({x})

Last(s) == s[Len(s)]

\* The exit status of a client process that has not exited.
NotExited == -1

\* The file at the derived test path. kind: "none" no file, "existing" a file
\* that was there before the tool ran, "generated" the backend's text under
\* the package and import lines, "placeholder" the fallback template.
\* attempt: the attempt the content was generated for. skip: the content
\* holds a skipped test. reason: the error the content's comment quotes.
File(kind, n, skip, reason) ==
    [kind |-> kind, attempt |-> n, skip |-> skip, reason |-> reason]

NoFile == File("none", 0, FALSE, "")
ExistingFile == File("existing", 0, FALSE, "")
InitialFiles == {NoFile, ExistingFile}

\* generateTests and generateTestsWithErrorContext, the backend answered
\* (generate_unit_tests.ts 236-258, 508-530).
GeneratedTests(n) == File("generated", n, FALSE, "")

\* generateTests, the backend raised (259-279): the template quotes the
\* backend's error message.
FallbackTemplate == File("placeholder", 1, TRUE, "backend error")

\* generateTestsWithErrorContext, the backend raised (531-551): the template
\* quotes the error text of the failed execution and the attempt number.
RegenerationFallbackTemplate(n) == File("placeholder", n, TRUE, "previous test error")

\* What a generation call does: the backend answers with a text, the backend
\* raises an error, or the call throws before it reaches the backend (the
\* dynamic imports, 181-182 and 434-435).
GenOutcomes == {"text", "raised", "threw"}

\* What execute returns (generate_unit_tests.ts 35, 39, 97-106) and, in
\* testResults, what executeTestsWithRetry returns (336-341, 417-422).
Result(kind, success, n, total, error) ==
    [kind |-> kind, success |-> success, attempt |-> n, attempts |-> total,
     error |-> error]

NoResult == Result("none", FALSE, 0, 0, "")
ErrorResult(message) == Result("error", FALSE, 0, 0, message)
PassedResult(n) == Result("testResults", TRUE, n, 0, "")
FailedResult == Result("testResults", FALSE, 0, maxRetries, "")

\* A text of the test runner is the set of the signals it includes.
PassSignals == {"PASS", "ok"}
Markers == {"undefined:", "redeclared", "unknown field", "too many errors",
            "syntax error"}

Includes(text, signal) == signal \in text

\* One run of the test runner (execAsync, 313-317): how it ended and its two
\* outputs. A marker can be in the standard output too (a test's log).
Runs ==
    {run \in [exit : {"zero", "nonzero", "timeout"},
              stdout : SUBSET (PassSignals \cup Markers),
              stderr : SUBSET Markers] :
        Cardinality(run.stdout) + Cardinality(run.stderr) <= MaxSignals}

\* Runs the whole session draws from.
PassingRun == [exit |-> "zero", stdout |-> {"PASS"}, stderr |-> {}]
FailingRun == [exit |-> "nonzero", stdout |-> {}, stderr |-> {"undefined:"}]
SampleRuns == {PassingRun, FailingRun}

\* One run of each kind the loop tells apart: a pass, and a failure by
\* non-zero exit, by timeout, by a missing pass signal, by a marker.
TimedOutRun == [exit |-> "timeout", stdout |-> {}, stderr |-> {}]
NoPassRun == [exit |-> "zero", stdout |-> {}, stderr |-> {}]
MarkerRun == [exit |-> "zero", stdout |-> {"PASS"}, stderr |-> {"syntax error"}]
OutcomeRuns == {PassingRun, FailingRun, TimedOutRun, NoPassRun, MarkerRun}

\* ------------------------------------------------------------ initial state
InitClient ==
    /\ state = "StateAPIKey"
    /\ isProcessing = FALSE
    /\ agentReady = FALSE
    /\ messages = <<>>
    /\ agentProcess = Nil
    /\ agentStdin = Nil
    /\ agentStdout = Nil
    /\ err = "nil"
    /\ apiKeyInput = <<>>
    /\ chatInput = <<>>

InitRuntime ==
    /\ cmds = EmptyBag
    /\ inbox = EmptyBag
    /\ quit = FALSE
    /\ exitCode = NotExited

InitToolLocals ==
    /\ generated = [w \in Workers |-> NoFile]
    /\ errorMessage = [w \in Workers |-> {}]
    /\ toolResult = [w \in Workers |-> NoResult]
    /\ execs = [w \in Workers |-> 0]
    /\ errorGuidance = [w \in Workers |-> ""]

InitWorkers ==
    /\ nSpawned = 0
    /\ alive = [w \in Workers |-> FALSE]
    /\ stdinPipe = [w \in Workers |-> <<>>]
    /\ stdoutPipe = [w \in Workers |-> <<>>]
    /\ wpc = [w \in Workers |-> "none"]
    /\ attempt = [w \in Workers |-> 0]
    /\ budget = MaxLines
    /\ artifact = NoFile
    /\ InitToolLocals

InitHistory ==
    /\ nChats = 0
    /\ nStarts = 0
    /\ runBase = -1

Init == InitClient /\ InitRuntime /\ InitWorkers /\ InitHistory

\* ------------------------------------------------------- the client: keys
\* Characters a key press or paste inserts in this model.
TypedChars == {"a"}

\* bubbles' text inputs: the runes are inserted while the value has room.
InsertRunes(value, runes, limit) ==
    IF Len(value) + Len(runes) <= limit THEN value \o runes ELSE value

Room == Len(messages) < MaxMessages

\* CanSend without the test of isProcessing.
CanSendWhileProcessing(message) == message # <<>> /\ agentReady

\* The chat send of KeyEnter and KeyCtrlS (main.go 302-313, 319-330).
CanSend(message) == message # <<>> /\ agentReady /\ ~isProcessing

SendNow(message) ==
    /\ messages' = Append(messages, Entry("user", message, FALSE))
    /\ isProcessing' = TRUE
    /\ cmds' = AddTo(cmds, Cmd("send", agentStdin, message))
    /\ nChats' = nChats + 1
    /\ runBase' = -1
    /\ UNCHANGED nStarts

\* Update, case tea.KeyMsg, tea.KeyRunes: no case of the switch matches; the
\* focused input of the current state takes the runes.
KeyRunes(c) ==
    /\ ~quit
    /\ IF state = "StateAPIKey"
       THEN /\ Len(apiKeyInput) < MaxKeyLen
            /\ apiKeyInput' = InsertRunes(apiKeyInput, <<c>>, MaxKeyLen)
            /\ UNCHANGED chatInput
       ELSE /\ Len(chatInput) < MaxInputLen
            /\ chatInput' = InsertRunes(chatInput, <<c>>, MaxInputLen)
            /\ UNCHANGED apiKeyInput
    /\ UNCHANGED <<state, isProcessing, agentReady, messages, agentProcess,
                   agentStdin, agentStdout, err>>
    /\ UNCHANGED <<runtimeVars, workerVars, nChats, nStarts, runBase>>

\* Update, case tea.KeyEnter (main.go 293-314), then the sub-component update
\* (main.go 581-592): in the chat state the textarea inserts a newline.
KeyEnter ==
    /\ ~quit
    /\ IF state = "StateAPIKey" /\ ~isProcessing
       THEN /\ IF apiKeyInput # <<>>
               THEN /\ nStarts < MaxStarts
                    /\ isProcessing' = TRUE
                    /\ cmds' = AddTo(cmds, Cmd("startAgent", Nil, apiKeyInput))
                    /\ nStarts' = nStarts + 1
               ELSE UNCHANGED <<isProcessing, cmds, nStarts>>
            /\ UNCHANGED <<messages, chatInput, nChats, runBase>>
       ELSE IF state = "StateChat" /\ ~Contains(chatInput, "NL")
       THEN LET message == TrimSpace(chatInput) IN
            IF CanSend(message)
            THEN /\ nChats < MaxChats
                 /\ Room
                 /\ SendNow(message)
                 /\ chatInput' = InsertRunes(<<>>, <<"NL">>, MaxInputLen)
            ELSE /\ chatInput' = InsertRunes(chatInput, <<"NL">>, MaxInputLen)
                 /\ UNCHANGED <<messages, isProcessing, cmds, nChats, nStarts, runBase>>
       ELSE /\ chatInput' = (IF state = "StateChat"
                              THEN InsertRunes(chatInput, <<"NL">>, MaxInputLen)
                              ELSE chatInput)
            /\ UNCHANGED <<messages, isProcessing, cmds, nChats, nStarts, runBase>>
    /\ UNCHANGED <<state, agentReady, agentProcess, agentStdin, agentStdout, err,
                   apiKeyInput>>
    /\ UNCHANGED <<inbox, quit, exitCode, workerVars>>

\* Update, case tea.KeyCtrlS (main.go 316-331); the textarea ignores the key.
KeyCtrlS ==
    /\ ~quit
    /\ IF state = "StateChat" /\ CanSend(TrimSpace(chatInput))
       THEN /\ nChats < MaxChats
            /\ Room
            /\ SendNow(TrimSpace(chatInput))
            /\ chatInput' = <<>>
       ELSE UNCHANGED <<messages, isProcessing, cmds, nChats, nStarts, runBase, chatInput>>
    /\ UNCHANGED <<state, agentReady, agentProcess, agentStdin, agentStdout, err,
                   apiKeyInput>>
    /\ UNCHANGED <<inbox, quit, exitCode, workerVars>>

\* Process.Kill: the process dies and the write end of its output closes.
Killed(w) == [wpc EXCEPT ![w] = "dead"]

\* Update, case tea.KeyCtrlC, tea.KeyEsc (main.go 286-291).
KeyCtrlC ==
    /\ ~quit
    /\ quit' = TRUE
    /\ exitCode' = 0
    /\ IF agentProcess # Nil
       THEN /\ alive' = [alive EXCEPT ![agentProcess] = FALSE]
            /\ wpc' = Killed(agentProcess)
       ELSE UNCHANGED <<alive, wpc>>
    /\ UNCHANGED <<clientVars, cmds, inbox, nSpawned, stdinPipe, stdoutPipe,
                   attempt, toolVars, budget, nChats, nStarts, runBase>>

\* main (main.go 733-739): Program.Run returns an error (the terminal is
\* lost, the program is killed) and the process exits with status 1; the
\* worker is not killed.
RunFails ==
    /\ ~quit
    /\ quit' = TRUE
    /\ exitCode' = 1
    /\ UNCHANGED <<clientVars, cmds, inbox, workerVars, historyVars>>

\* --------------------------------------------------- the client: commands
StartErrors == {"agent directory not found",
                "failed to create stdin pipe",
                "failed to create stdout pipe",
                "failed to start agent"}

\* startAgent's command, an early return (main.go 179-207): nothing is spawned.
StartAgentFails(c, e) ==
    /\ ~quit
    /\ BagIn(c, cmds) /\ c.op = "startAgent"
    /\ cmds' = RemoveFrom(cmds, c)
    /\ inbox' = AddTo(inbox, Msg("err", Nil, NoLine, e))
    /\ UNCHANGED <<clientVars, quit, exitCode, workerVars, nChats, nStarts, runBase>>

\* startAgent's command, the process started (main.go 184-225): the init line
\* is written to its input.
StartAgentSpawns(c) ==
    /\ ~quit
    /\ BagIn(c, cmds) /\ c.op = "startAgent"
    /\ nSpawned < MaxWorkers
    /\ LET w == nSpawned + 1 IN
        /\ nSpawned' = w
        /\ alive' = [alive EXCEPT ![w] = TRUE]
        /\ wpc' = [wpc EXCEPT ![w] = "idle"]
        /\ stdinPipe' = [stdinPipe EXCEPT ![w] = <<InitLine(c.text)>>]
        /\ inbox' = AddTo(inbox, Msg("agentStarted", w, NoLine, ""))
    /\ cmds' = RemoveFrom(cmds, c)
    /\ UNCHANGED <<clientVars, quit, exitCode, stdoutPipe, attempt, toolVars, budget,
                   nChats, nStarts, runBase>>

\* sendChatMessage's command (main.go 261-278): the line and its newline go
\* to the input of the worker the Model held; a write to a dead worker fails
\* and the error is dropped.
SendChatMessage(c) ==
    /\ ~quit
    /\ BagIn(c, cmds) /\ c.op = "send"
    /\ cmds' = RemoveFrom(cmds, c)
    /\ IF c.h = Nil
       THEN /\ inbox' = AddTo(inbox, Msg("err", Nil, NoLine, "agent not initialized"))
            /\ UNCHANGED stdinPipe
       ELSE /\ stdinPipe' = (IF alive[c.h]
                             THEN [stdinPipe EXCEPT ![c.h] = Append(@, ChatLine(c.text))]
                             ELSE stdinPipe)
            /\ UNCHANGED inbox
    /\ UNCHANGED <<clientVars, quit, exitCode, nSpawned, alive, stdoutPipe, wpc, attempt, toolVars,
                   budget, nChats, nStarts, runBase>>

\* What a scanner stops at: a JSON line (json.Unmarshal succeeds) or a line
\* longer than its largest token (scanner.Err()); empty and non-JSON lines are
\* skipped (main.go 237-250).
Stops(line) == line.kind \in {"env", "toolong"}

FirstStop(batch) ==
    IF \E i \in 1..Len(batch) : Stops(batch[i])
    THEN CHOOSE i \in 1..Len(batch) :
            Stops(batch[i]) /\ \A j \in 1..(i - 1) : ~Stops(batch[j])
    ELSE 0

\* listenToAgent's command (main.go 228-259). A new bufio.Scanner reads what
\* the pipe holds (the first k lines: as much as one Read returned), skips to
\* the first line it stops at and returns; what it had read beyond that line
\* goes with the scanner.
ListenReturns(c, k) ==
    /\ ~quit
    /\ BagIn(c, cmds) /\ c.op = "listen" /\ c.h # Nil
    /\ k \in 1..Len(stdoutPipe[c.h])
    /\ LET batch == SubSeq(stdoutPipe[c.h], 1, k)
           i == FirstStop(batch)
       IN /\ stdoutPipe' = [stdoutPipe EXCEPT ![c.h] = SubSeq(@, k + 1, Len(@))]
          /\ IF i = 0
             THEN UNCHANGED <<cmds, inbox>>
             ELSE /\ cmds' = RemoveFrom(cmds, c)
                  /\ inbox' = AddTo(inbox,
                        IF batch[i].kind = "env"
                        THEN Msg("agentResponse", c.h, batch[i], "")
                        ELSE Msg("err", Nil, NoLine, "agent stream error"))
    /\ UNCHANGED <<clientVars, quit, exitCode, nSpawned, alive, stdinPipe, wpc, attempt, toolVars,
                   budget, nChats, nStarts, runBase>>

\* listenToAgent's command at the end of the stream (main.go 230-232, 256-257).
ListenEnds(c) ==
    /\ ~quit
    /\ BagIn(c, cmds) /\ c.op = "listen"
    /\ IF c.h = Nil THEN TRUE ELSE stdoutPipe[c.h] = <<>> /\ ~alive[c.h]
    /\ cmds' = RemoveFrom(cmds, c)
    /\ inbox' = AddTo(inbox, Msg("err", Nil, NoLine,
                    IF c.h = Nil THEN "agent stdout is nil"
                    ELSE "agent stream closed unexpectedly"))
    /\ UNCHANGED <<clientVars, quit, exitCode, workerVars, nChats, nStarts, runBase>>

\* ------------------------------------------------ the client: the fold
\* What folding an envelope can change of the Model.
Folded(st, ready, proc, msgs) ==
    [state |-> st, agentReady |-> ready, isProcessing |-> proc, messages |-> msgs]

Keep == Folded(state, agentReady, isProcessing, messages)

LastIsAssistant == Len(messages) > 0 /\ Last(messages).Role = "assistant"

InitializedBanner == <<"Agent initialized successfully">>

\* FoldResponse without the comparison with the last entry: a response with
\* content is always appended.
FoldResponseWithoutDedup(line) ==
    IF line.status = "initialized"
    THEN Folded("StateChat", TRUE, FALSE,
                Append(messages, Entry("system", InitializedBanner, FALSE)))
    ELSE IF line.content # <<>>
    THEN Folded(state, agentReady, FALSE,
                Append(messages, Entry("assistant", line.content, FALSE)))
    ELSE Keep

\* FoldResponse without the assignment of m.state.
FoldResponseKeepsState(line) ==
    IF line.status = "initialized"
    THEN Folded(state, TRUE, FALSE,
                Append(messages, Entry("system", InitializedBanner, FALSE)))
    ELSE IF line.content # <<>>
    THEN IF Len(messages) = 0 \/ Last(messages).Role # "assistant"
         THEN Folded(state, agentReady, FALSE,
                     Append(messages, Entry("assistant", line.content, FALSE)))
         ELSE Folded(state, agentReady, FALSE, messages)
    ELSE Keep

\* FoldResponse that puts a response's content in the last assistant entry,
\* as a chunk's.
FoldResponseReplaces(line) ==
    IF line.status = "initialized"
    THEN Folded("StateChat", TRUE, FALSE,
                Append(messages, Entry("system", InitializedBanner, FALSE)))
    ELSE IF line.content # <<>>
    THEN IF LastIsAssistant
         THEN Folded(state, agentReady, FALSE,
                     [messages EXCEPT ![Len(messages)].Content = line.content])
         ELSE Folded(state, agentReady, FALSE,
                     Append(messages, Entry("assistant", line.content, FALSE)))
    ELSE Keep

\* FoldResponse that appends a response whose content differs from the last
\* assistant entry's.
FoldResponseAppendsNew(line) ==
    IF line.status = "initialized"
    THEN Folded("StateChat", TRUE, FALSE,
                Append(messages, Entry("system", InitializedBanner, FALSE)))
    ELSE IF line.content # <<>>
    THEN IF LastIsAssistant /\ Last(messages).Content = line.content
         THEN Folded(state, agentReady, FALSE, messages)
         ELSE Folded(state, agentReady, FALSE,
                     Append(messages, Entry("assistant", line.content, FALSE)))
    ELSE Keep

\* FoldResponse that appends a response's content as a system entry.
FoldResponseAsSystem(line) ==
    IF line.status = "initialized"
    THEN Folded("StateChat", TRUE, FALSE,
                Append(messages, Entry("system", InitializedBanner, FALSE)))
    ELSE IF line.content # <<>>
    THEN IF LastIsAssistant /\ Last(messages).Content = line.content
         THEN Folded(state, agentReady, FALSE, messages)
         ELSE IF Len(messages) = 0 \/ Last(messages).Role # "assistant"
         THEN Folded(state, agentReady, FALSE,
                     Append(messages, Entry("system", line.content, FALSE)))
         ELSE Folded(state, agentReady, FALSE, messages)
    ELSE Keep

\* case MsgResponse (main.go 363-402).
FoldResponse(line) ==
    IF line.status = "initialized"
    THEN Folded("StateChat", TRUE, FALSE,
                Append(messages, Entry("system", InitializedBanner, FALSE)))
    ELSE IF line.content # <<>>
    THEN IF LastIsAssistant /\ Last(messages).Content = line.content
         THEN Folded(state, agentReady, FALSE, messages)
         ELSE IF Len(messages) = 0 \/ Last(messages).Role # "assistant"
         THEN Folded(state, agentReady, FALSE,
                     Append(messages, Entry("assistant", line.content, FALSE)))
         ELSE Folded(state, agentReady, FALSE, messages)
    ELSE Keep

\* The parameters shown for a tool call (main.go 413-514), for the calls the
\* worker's tool makes: generate_unit_tests with the default framework and no
\* coverage target, run_command with the test command (50 characters at most).
ToolParams(tool) ==
    CASE tool = "generate_unit_tests" -> <<"file: x.go">>
      [] tool = "run_command"         -> <<"cmd: go test -v ./x_test.go">>
      [] OTHER                        -> <<>>

\* FoldToolCall that does not repeat the entry of the same call.
FoldToolCallMerges(line) ==
    LET entry == Entry("tool", <<"Tool", line.tool>> \o ToolParams(line.tool), FALSE) IN
    IF Len(messages) > 0 /\ Last(messages) = entry THEN Keep
    ELSE Folded(state, agentReady, isProcessing, Append(messages, entry))

\* case MsgToolCall (main.go 404-521).
FoldToolCall(line) ==
    Folded(state, agentReady, isProcessing,
           Append(messages, Entry("tool", <<"Tool", line.tool>> \o ToolParams(line.tool), FALSE)))

\* FoldStreamChunk without the replacement in place: a chunk with content is
\* always appended.
FoldStreamChunkAppends(line) ==
    IF line.status = "thinking"
    THEN Folded(state, agentReady, isProcessing,
                Append(messages, Entry("system", <<"Thinking...">>, FALSE)))
    ELSE IF line.content # <<>>
    THEN Folded(state, agentReady, isProcessing,
                Append(messages, Entry("assistant", line.content, FALSE)))
    ELSE Keep

\* FoldStreamChunk without the test of the last entry's role: a chunk's
\* content replaces the content of the last entry, whatever it is.
FoldStreamChunkReplacesAny(line) ==
    IF line.status = "thinking"
    THEN Folded(state, agentReady, isProcessing,
                Append(messages, Entry("system", <<"Thinking...">>, FALSE)))
    ELSE IF line.content # <<>>
    THEN IF Len(messages) > 0
         THEN Folded(state, agentReady, isProcessing,
                     [messages EXCEPT ![Len(messages)].Content = line.content])
         ELSE Folded(state, agentReady, isProcessing,
                     Append(messages, Entry("assistant", line.content, FALSE)))
    ELSE Keep

\* case MsgStreamChunk (main.go 523-549).
FoldStreamChunk(line) ==
    IF line.status = "thinking"
    THEN Folded(state, agentReady, isProcessing,
                Append(messages, Entry("system", <<"Thinking...">>, FALSE)))
    ELSE IF line.content # <<>>
    THEN IF LastIsAssistant
         THEN Folded(state, agentReady, isProcessing,
                     [messages EXCEPT ![Len(messages)].Content = line.content])
         ELSE Folded(state, agentReady, isProcessing,
                     Append(messages, Entry("assistant", line.content, FALSE)))
    ELSE Keep

\* FoldError that leaves isProcessing as it was.
FoldErrorKeepsProcessing(line) ==
    Folded(state, agentReady, isProcessing,
           Append(messages, Entry("system", <<"Error">> \o line.content, TRUE)))

\* case MsgError (main.go 551-565).
FoldError(line) ==
    Folded(state, agentReady, FALSE,
           Append(messages, Entry("system", <<"Error">> \o line.content, TRUE)))

\* switch msg.message.Type (main.go 362-566); another type matches no case.
FoldEnvelope(line) ==
    CASE line.type = "response"     -> FoldResponse(line)
      [] line.type = "tool_call"    -> FoldToolCall(line)
      [] line.type = "stream_chunk" -> FoldStreamChunk(line)
      [] line.type = "error"        -> FoldError(line)
      [] OTHER                      -> Keep

IsContentChunk(line) ==
    line.type = "stream_chunk" /\ line.status # "thinking" /\ line.content # <<>>

\* HandleAgentStarted that makes the client Active at the spawn.
HandleAgentStartedActivates(msg) ==
    /\ ~quit
    /\ BagIn(msg, inbox) /\ msg.kind = "agentStarted"
    /\ inbox' = RemoveFrom(inbox, msg)
    /\ agentProcess' = msg.w
    /\ agentStdin' = msg.w
    /\ agentStdout' = msg.w
    /\ state' = "StateChat"
    /\ agentReady' = TRUE
    /\ isProcessing' = FALSE
    /\ cmds' = AddTo(cmds, Cmd("listen", msg.w, <<>>))
    /\ UNCHANGED <<messages, err, apiKeyInput, chatInput>>
    /\ UNCHANGED <<quit, exitCode, workerVars, nChats, nStarts, runBase>>

\* Update, case agentStartedMsg (main.go 349-356).
HandleAgentStarted(msg) ==
    /\ ~quit
    /\ BagIn(msg, inbox) /\ msg.kind = "agentStarted"
    /\ inbox' = RemoveFrom(inbox, msg)
    /\ agentProcess' = msg.w
    /\ agentStdin' = msg.w
    /\ agentStdout' = msg.w
    /\ cmds' = AddTo(cmds, Cmd("listen", msg.w, <<>>))
    /\ UNCHANGED <<state, isProcessing, agentReady, messages, err, apiKeyInput, chatInput>>
    /\ UNCHANGED <<quit, exitCode, workerVars, nChats, nStarts, runBase>>

\* Update, case agentResponseMsg (main.go 358-566): the read is re-armed on
\* the output the Model holds now, then the envelope is folded.
HandleAgentResponse(msg) ==
    /\ ~quit
    /\ BagIn(msg, inbox) /\ msg.kind = "agentResponse"
    /\ LET f == FoldEnvelope(msg.line) IN
        /\ Len(f.messages) <= MaxMessages
        /\ state' = f.state
        /\ agentReady' = f.agentReady
        /\ isProcessing' = f.isProcessing
        /\ messages' = f.messages
    /\ inbox' = RemoveFrom(inbox, msg)
    /\ cmds' = AddTo(cmds, Cmd("listen", agentStdout, <<>>))
    /\ runBase' = (IF IsContentChunk(msg.line)
                   THEN (IF runBase = -1 THEN Len(messages) ELSE runBase)
                   ELSE -1)
    /\ UNCHANGED <<agentProcess, agentStdin, agentStdout, err, apiKeyInput, chatInput>>
    /\ UNCHANGED <<quit, exitCode, workerVars, nChats, nStarts>>

\* HandleErr that ends the session with exit status 1.
HandleErrExits(msg) ==
    /\ ~quit
    /\ BagIn(msg, inbox) /\ msg.kind = "err"
    /\ Room
    /\ inbox' = RemoveFrom(inbox, msg)
    /\ err' = msg.e
    /\ isProcessing' = FALSE
    /\ messages' = Append(messages, Entry("system", <<"System Error", msg.e>>, TRUE))
    /\ runBase' = -1
    /\ quit' = TRUE
    /\ exitCode' = 1
    /\ UNCHANGED <<state, agentReady, agentProcess, agentStdin, agentStdout,
                   apiKeyInput, chatInput>>
    /\ UNCHANGED <<cmds, workerVars, nChats, nStarts>>

\* HandleErr that schedules the read again.
HandleErrRearms(msg) ==
    /\ ~quit
    /\ BagIn(msg, inbox) /\ msg.kind = "err"
    /\ Room
    /\ inbox' = RemoveFrom(inbox, msg)
    /\ err' = msg.e
    /\ isProcessing' = FALSE
    /\ messages' = Append(messages, Entry("system", <<"System Error", msg.e>>, TRUE))
    /\ runBase' = -1
    /\ cmds' = AddTo(cmds, Cmd("listen", agentStdout, <<>>))
    /\ UNCHANGED <<state, agentReady, agentProcess, agentStdin, agentStdout,
                   apiKeyInput, chatInput>>
    /\ UNCHANGED <<quit, exitCode, workerVars, nChats, nStarts>>

\* HandleErr that asks for the API key again.
HandleErrAsksKeyAgain(msg) ==
    /\ ~quit
    /\ BagIn(msg, inbox) /\ msg.kind = "err"
    /\ Room
    /\ inbox' = RemoveFrom(inbox, msg)
    /\ err' = msg.e
    /\ isProcessing' = FALSE
    /\ messages' = Append(messages, Entry("system", <<"System Error", msg.e>>, TRUE))
    /\ runBase' = -1
    /\ state' = "StateAPIKey"
    /\ agentReady' = FALSE
    /\ UNCHANGED <<agentProcess, agentStdin, agentStdout, apiKeyInput, chatInput>>
    /\ UNCHANGED <<cmds, quit, exitCode, workerVars, nChats, nStarts>>

\* Update, case errMsg (main.go 568-578): no command is returned.
HandleErr(msg) ==
    /\ ~quit
    /\ BagIn(msg, inbox) /\ msg.kind = "err"
    /\ Room
    /\ inbox' = RemoveFrom(inbox, msg)
    /\ err' = msg.e
    /\ isProcessing' = FALSE
    /\ messages' = Append(messages, Entry("system", <<"System Error", msg.e>>, TRUE))
    /\ runBase' = -1
    /\ UNCHANGED <<state, agentReady, agentProcess, agentStdin, agentStdout,
                   apiKeyInput, chatInput>>
    /\ UNCHANGED <<cmds, quit, exitCode, workerVars, nChats, nStarts>>

\* ------------------------------------------------- the worker: main loop
\* Texts the language model answers with.
Answers == {<<"A">>, <<"B">>}

StrayKinds == {"empty", "garbage", "toolong"}

Emit(w, lines) ==
    /\ Len(lines) <= budget
    /\ stdoutPipe' = [stdoutPipe EXCEPT ![w] = @ \o lines]
    /\ budget' = budget - Len(lines)

NoEmit == UNCHANGED <<stdoutPipe, budget>>

Running(w, pc) == alive[w] /\ wpc[w] = pc

Goto(w, pc) == wpc' = [wpc EXCEPT ![w] = pc]

WorkerFrame ==
    UNCHANGED <<clientVars, runtimeVars, nChats, nStarts, runBase>>

\* The worker reads one line of its input: a malformed line is skipped, an
\* init envelope is answered with the initialized response or an error, a
\* chat envelope starts a turn.
WorkerReads(w, accepted) ==
    /\ ~quit
    /\ Running(w, "idle")
    /\ stdinPipe[w] # <<>>
    /\ stdinPipe' = [stdinPipe EXCEPT ![w] = Tail(@)]
    /\ LET env == ParseLine(Head(stdinPipe[w])) IN
        IF env.ok /\ env.type = "init"
        THEN /\ Emit(w, <<IF accepted
                          THEN EnvLine("response", "initialized", <<>>, "")
                          ELSE EnvLine("error", "", <<"initialization failed">>, "")>>)
             /\ UNCHANGED wpc
        ELSE IF env.ok /\ env.type = "chat"
        THEN Goto(w, "turn") /\ NoEmit
        ELSE UNCHANGED wpc /\ NoEmit
    /\ UNCHANGED <<nSpawned, alive, attempt, toolVars>>
    /\ WorkerFrame

\* During a turn: a progress indicator.
WorkerThinks(w) ==
    /\ ~quit
    /\ Running(w, "turn")
    /\ Emit(w, <<EnvLine("stream_chunk", "thinking", <<>>, "")>>)
    /\ UNCHANGED <<nSpawned, alive, stdinPipe, wpc, attempt, toolVars>>
    /\ WorkerFrame

\* During a turn: a streamed chunk of the answer.
WorkerStreams(w, c) ==
    /\ ~quit
    /\ Running(w, "turn")
    /\ Emit(w, <<EnvLine("stream_chunk", "", c, "")>>)
    /\ UNCHANGED <<nSpawned, alive, stdinPipe, wpc, attempt, toolVars>>
    /\ WorkerFrame

\* The turn ends with the final response.
WorkerResponds(w, c) ==
    /\ ~quit
    /\ Running(w, "turn")
    /\ Emit(w, <<EnvLine("response", "", c, "")>>)
    /\ Goto(w, "idle")
    /\ UNCHANGED <<nSpawned, alive, stdinPipe, attempt, toolVars>>
    /\ WorkerFrame

\* The turn ends with an error envelope.
WorkerFails(w) ==
    /\ ~quit
    /\ Running(w, "turn")
    /\ Emit(w, <<EnvLine("error", "", <<"request failed">>, "")>>)
    /\ Goto(w, "idle")
    /\ UNCHANGED <<nSpawned, alive, stdinPipe, attempt, toolVars>>
    /\ WorkerFrame

\* Output that is no envelope (the package runner's banner, a library's log).
WorkerStray(w, kind) ==
    /\ ~quit
    /\ alive[w]
    /\ Emit(w, <<OtherLine(kind)>>)
    /\ UNCHANGED <<nSpawned, alive, stdinPipe, wpc, attempt, toolVars>>
    /\ WorkerFrame

\* The process ends by itself; the write end of its output closes.
WorkerExits(w) ==
    /\ ~quit
    /\ alive[w]
    /\ alive' = [alive EXCEPT ![w] = FALSE]
    /\ wpc' = Killed(w)
    /\ NoEmit
    /\ UNCHANGED <<nSpawned, stdinPipe, attempt, toolVars>>
    /\ WorkerFrame

\* ------------------------------- the worker: the test-generation tool
Num(n) == ToString(n)

ToolCall(tool) == EnvLine("tool_call", "", <<>>, tool)
Notice(text) == EnvLine("response", "", text, "")

OverwriteNotice == Notice(<<"Test file already exists">>)
PassedNotice(n) == Notice(<<"Tests passed on attempt", Num(n)>>)
FailedNotice(n) == Notice(<<"Test attempt failed", Num(n)>>)
RegeneratingNotice(n) == Notice(<<"Regenerating tests (attempt)", Num(n)>>)
RegeneratedNotice(n) == Notice(<<"Test file regenerated for attempt", Num(n)>>)
RegenerateFailedNotice == Notice(<<"Failed to regenerate tests">>)
AllFailedNotice == Notice(<<"All test attempts failed", Num(maxRetries)>>)

\* The classification of a run (generate_unit_tests.ts 313-347). execAsync
\* resolves only when the runner exits with status zero within the timeout;
\* the pass signal is looked for in its standard output, the
\* compilation-error markers in its standard error.
hasPass(run) == Includes(run.stdout, "PASS") \/ Includes(run.stdout, "ok")

\* hasCompilationError without the test for "too many errors".
hasCompilationErrorFewer(run) ==
    \/ Includes(run.stderr, "undefined:")
    \/ Includes(run.stderr, "redeclared")
    \/ Includes(run.stderr, "unknown field")
    \/ Includes(run.stderr, "syntax error")

hasCompilationError(run) ==
    \/ Includes(run.stderr, "undefined:")
    \/ Includes(run.stderr, "redeclared")
    \/ Includes(run.stderr, "unknown field")
    \/ Includes(run.stderr, "too many errors")
    \/ Includes(run.stderr, "syntax error")

IsSuccess(run) == run.exit = "zero" /\ hasPass(run) /\ ~hasCompilationError(run)

\* errorMessage of the catch block (344-350): error.stderr, or else
\* error.message. The error thrown at 345 has no stderr and its message holds
\* both outputs; the error of a rejected execAsync holds the standard error
\* in both.
ErrorText(run) == IF run.exit = "zero" THEN run.stdout \cup run.stderr ELSE run.stderr

\* Guidance with the test for "undefined:" put first.
GuidanceUndefinedFirst(text) ==
    IF Includes(text, "undefined:") THEN "undefined-reference"
    ELSE IF Includes(text, "redeclared") THEN "duplicate-declaration"
    ELSE IF Includes(text, "unknown field") THEN "field-mismatch"
    ELSE IF Includes(text, "syntax error") THEN "syntax-error"
    ELSE "generic"

\* errorGuidance of generateTestsWithErrorContext (463-475).
Guidance(text) ==
    IF Includes(text, "redeclared") THEN "duplicate-declaration"
    ELSE IF Includes(text, "undefined:") THEN "undefined-reference"
    ELSE IF Includes(text, "unknown field") THEN "field-mismatch"
    ELSE IF Includes(text, "syntax error") THEN "syntax-error"
    ELSE "generic"

\* if (attempt < maxRetries) of the catch block (361).
Regenerates(n) == n < maxRetries

\* LoopContinues for one attempt more.
LoopContinuesOnceMore(n) == n <= maxRetries + 1

\* LoopContinues for one attempt fewer.
LoopStopsEarly(n) == n < maxRetries

\* while (attempt <= maxRetries) (295).
LoopContinues(n) == n <= maxRetries

\* ToolStarts that sends no tool_call envelope.
ToolStartsSilently(w) ==
    /\ ~quit
    /\ Running(w, "turn")
    /\ NoEmit
    /\ Goto(w, "validate")
    /\ generated' = [generated EXCEPT ![w] = NoFile]
    /\ errorMessage' = [errorMessage EXCEPT ![w] = {}]
    /\ toolResult' = [toolResult EXCEPT ![w] = NoResult]
    /\ execs' = [execs EXCEPT ![w] = 0]
    /\ errorGuidance' = [errorGuidance EXCEPT ![w] = ""]
    /\ UNCHANGED <<nSpawned, alive, stdinPipe, attempt, artifact>>
    /\ WorkerFrame

\* execute is entered (generate_unit_tests.ts 15-29): the tool_call envelope;
\* the locals of the invocation are new.
ToolStarts(w) ==
    /\ ~quit
    /\ Running(w, "turn")
    /\ Emit(w, <<ToolCall("generate_unit_tests")>>)
    /\ Goto(w, "validate")
    /\ generated' = [generated EXCEPT ![w] = NoFile]
    /\ errorMessage' = [errorMessage EXCEPT ![w] = {}]
    /\ toolResult' = [toolResult EXCEPT ![w] = NoResult]
    /\ execs' = [execs EXCEPT ![w] = 0]
    /\ errorGuidance' = [errorGuidance EXCEPT ![w] = ""]
    /\ UNCHANGED <<nSpawned, alive, stdinPipe, attempt, artifact>>
    /\ WorkerFrame

\* execute returns (35, 39, 97-106).
Returns(w, result) ==
    /\ Goto(w, "turn")
    /\ toolResult' = [toolResult EXCEPT ![w] = result]

\* ToolStep that goes on to the next step after a failure.
ToolStepGoesOn(w, pc, next, ok, message) ==
    /\ ~quit
    /\ Running(w, pc)
    /\ Goto(w, next)
    /\ UNCHANGED toolResult
    /\ NoEmit
    /\ UNCHANGED <<nSpawned, alive, stdinPipe, attempt>>
    /\ UNCHANGED <<artifact, generated, errorMessage, errorGuidance, execs>>
    /\ WorkerFrame

\* ToolStep that reports the failure as an error envelope.
ToolStepReports(w, pc, next, ok, message) ==
    /\ ~quit
    /\ Running(w, pc)
    /\ IF ok
       THEN Goto(w, next) /\ UNCHANGED toolResult /\ NoEmit
       ELSE /\ Returns(w, ErrorResult(message))
            /\ Emit(w, <<EnvLine("error", "", <<message>>, "")>>)
    /\ UNCHANGED <<nSpawned, alive, stdinPipe, attempt>>
    /\ UNCHANGED <<artifact, generated, errorMessage, errorGuidance, execs>>
    /\ WorkerFrame

\* A step before the generation (generate_unit_tests.ts 31-49, 105-107):
\* ok, and the next step follows; or it returns an error result or throws,
\* and the tool returns the error with no envelope.
ToolStep(w, pc, next, ok, message) ==
    /\ ~quit
    /\ Running(w, pc)
    /\ IF ok
       THEN Goto(w, next) /\ UNCHANGED toolResult
       ELSE Returns(w, ErrorResult(message))
    /\ NoEmit
    /\ UNCHANGED <<nSpawned, alive, stdinPipe, attempt>>
    /\ UNCHANGED <<artifact, generated, errorMessage, errorGuidance, execs>>
    /\ WorkerFrame

\* fs.stat and the file-kind checks, then fs.readFile (33-43).
ToolValidates(w, ok) == ToolStep(w, "validate", "embed", ok, "not a Go file")

\* ToolEmbeds where a failure of the embedding is passed over and the search
\* goes on without an embedding.
ToolEmbedsFallsBack(w, ok) ==
    ToolStep(w, "embed", "search", TRUE, "Failed to generate embedding")

\* generateEmbedding (46, 112-139): it throws when the endpoint setting is
\* missing (113-116) or the service fails (136-138); one message stands for both.
ToolEmbeds(w, ok) == ToolStep(w, "embed", "search", ok, "Failed to generate embedding")

\* searchVectorDatabase (49, 141-172): it throws when the connection setting
\* is missing (142-145) or the query fails (167-169).
ToolSearches(w, ok) == ToolStep(w, "search", "generate", ok, "Database search failed")

\* ToolGenerates where an error of the backend is thrown on.
ToolGeneratesThrows(w, outcome) ==
    /\ ~quit
    /\ Running(w, "generate")
    /\ IF outcome # "text"
       THEN /\ Returns(w, ErrorResult("backend error"))
            /\ UNCHANGED generated
       ELSE /\ generated' = [generated EXCEPT ![w] = GeneratedTests(1)]
            /\ Goto(w, "stat")
            /\ UNCHANGED toolResult
    /\ NoEmit
    /\ UNCHANGED <<nSpawned, alive, stdinPipe, attempt>>
    /\ UNCHANGED <<artifact, errorMessage, errorGuidance, execs>>
    /\ WorkerFrame

\* generateTests (52, 174-280): the generated file or, when the backend
\* raises, the fallback template; it throws only when its imports fail.
ToolGenerates(w, outcome) ==
    /\ ~quit
    /\ Running(w, "generate")
    /\ IF outcome = "threw"
       THEN /\ Returns(w, ErrorResult("import failed"))
            /\ UNCHANGED generated
       ELSE /\ generated' = [generated EXCEPT ![w] =
                                IF outcome = "text" THEN GeneratedTests(1)
                                ELSE FallbackTemplate]
            /\ Goto(w, "stat")
            /\ UNCHANGED toolResult
    /\ NoEmit
    /\ UNCHANGED <<nSpawned, alive, stdinPipe, attempt>>
    /\ UNCHANGED <<artifact, errorMessage, errorGuidance, execs>>
    /\ WorkerFrame

\* fs.stat of the test path and the overwrite notice (54-81).
ToolChecksExisting(w, exists) ==
    /\ ~quit
    /\ Running(w, "stat")
    /\ exists = (artifact # NoFile)
    /\ IF exists THEN Emit(w, <<OverwriteNotice>>) ELSE NoEmit
    /\ Goto(w, "write")
    /\ UNCHANGED <<nSpawned, alive, stdinPipe, attempt, toolVars>>
    /\ WorkerFrame

\* ToolWrites that waits for a line on the worker's input, the reply to the
\* overwrite notice, before it writes.
ToolWritesAwaitsReply(w, ok) ==
    /\ ~quit
    /\ Running(w, "write")
    /\ stdinPipe[w] # <<>>
    /\ IF ok
       THEN /\ artifact' = generated[w]
            /\ attempt' = [attempt EXCEPT ![w] = 1]
            /\ Emit(w, <<ToolCall("run_command")>>)
            /\ Goto(w, "exec")
            /\ UNCHANGED toolResult
       ELSE /\ Returns(w, ErrorResult("write failed"))
            /\ NoEmit
            /\ UNCHANGED <<attempt, artifact>>
    /\ UNCHANGED <<nSpawned, alive, stdinPipe>>
    /\ UNCHANGED <<generated, errorMessage, errorGuidance, execs>>
    /\ WorkerFrame

\* fs.writeFile (84), then executeTestsWithRetry up to its first await
\* (291-313): attempt 1 and the run_command tool_call. A write that fails
\* leaves the path as it was and execute returns the error (105-107).
ToolWrites(w, ok) ==
    /\ ~quit
    /\ Running(w, "write")
    /\ IF ok
       THEN /\ artifact' = generated[w]
            /\ attempt' = [attempt EXCEPT ![w] = 1]
            /\ Emit(w, <<ToolCall("run_command")>>)
            /\ Goto(w, "exec")
            /\ UNCHANGED toolResult
       ELSE /\ Returns(w, ErrorResult("write failed"))
            /\ NoEmit
            /\ UNCHANGED <<attempt, artifact>>
    /\ UNCHANGED <<nSpawned, alive, stdinPipe>>
    /\ UNCHANGED <<generated, errorMessage, errorGuidance, execs>>
    /\ WorkerFrame

\* The loop's test after attempt++ (405, 295): the next iteration up to its
\* first await (296-313), or the end of executeTestsWithRetry (409-422) and
\* of execute (97-104). before: the envelopes sent since the last await.
ToolLoops(w, before) ==
    /\ attempt' = [attempt EXCEPT ![w] = @ + 1]
    /\ IF LoopContinues(attempt[w] + 1)
       THEN /\ Emit(w, before \o <<ToolCall("run_command")>>)
            /\ Goto(w, "exec")
            /\ UNCHANGED toolResult
       ELSE /\ Emit(w, before \o <<AllFailedNotice>>)
            /\ Returns(w, FailedResult)

\* ToolPasses that goes on to the loop's test instead of returning.
ToolPassesAndLoops(w) ==
    /\ ToolLoops(w, <<PassedNotice(attempt[w])>>)
    /\ UNCHANGED errorMessage

\* The run is a success (327-341): the notice, and the loop returns.
ToolPasses(w) ==
    /\ Emit(w, <<PassedNotice(attempt[w])>>)
    /\ Returns(w, PassedResult(attempt[w]))
    /\ UNCHANGED <<attempt, errorMessage>>

\* The test run returns (313-367, 405-422). A success returns at once;
\* otherwise the catch block runs.
ToolExecutes(w, run) ==
    /\ ~quit
    /\ Running(w, "exec")
    /\ execs' = [execs EXCEPT ![w] = @ + 1]
    /\ IF IsSuccess(run)
       THEN ToolPasses(w)
       ELSE /\ errorMessage' = [errorMessage EXCEPT ![w] = ErrorText(run)]
            /\ IF Regenerates(attempt[w])
               THEN /\ Emit(w, <<FailedNotice(attempt[w]),
                                 RegeneratingNotice(attempt[w] + 1)>>)
                    /\ Goto(w, "regen")
                    /\ UNCHANGED <<attempt, toolResult>>
               ELSE ToolLoops(w, <<FailedNotice(attempt[w])>>)
    /\ UNCHANGED <<nSpawned, alive, stdinPipe>>
    /\ UNCHANGED <<artifact, generated, errorGuidance>>
    /\ WorkerFrame

\* Written where a write that fails removes the file.
WrittenOrRemoved(wrote, content) == IF wrote THEN content ELSE NoFile

\* The path after fs.writeFile (385): a write that fails leaves it as it was.
Written(wrote, content) == IF wrote THEN content ELSE artifact

\* ToolRegenerates that calls the backend again, in the same attempt, after
\* an error of the backend.
ToolRegeneratesRetries(w, outcome, wrote) ==
    /\ ~quit
    /\ Running(w, "regen")
    /\ outcome = "raised"
    /\ Emit(w, <<RegenerateFailedNotice>>)
    /\ UNCHANGED <<nSpawned, alive, stdinPipe, wpc, attempt, toolVars>>
    /\ WorkerFrame

\* The regeneration and its write return (369-405), then the loop's test.
\* outcome: what generateTestsWithErrorContext does; it builds its prompt
\* after its imports. wrote: fs.writeFile (385) succeeds; a write that fails
\* leaves the path as it was. The catch block's errorMessage ends with it.
ToolRegenerates(w, outcome, wrote) ==
    /\ ~quit
    /\ Running(w, "regen")
    /\ outcome = "threw" => ~wrote
    /\ LET content == IF outcome = "text" THEN GeneratedTests(attempt[w] + 1)
                      ELSE RegenerationFallbackTemplate(attempt[w] + 1)
       IN /\ IF outcome = "threw"
             THEN UNCHANGED <<generated, errorGuidance>>
             ELSE /\ generated' = [generated EXCEPT ![w] = content]
                  /\ errorGuidance' = [errorGuidance EXCEPT ![w] =
                                          Guidance(errorMessage[w])]
          /\ artifact' = Written(wrote, content)
    /\ ToolLoops(w, <<IF wrote THEN RegeneratedNotice(attempt[w] + 1)
                      ELSE RegenerateFailedNotice>>)
    /\ UNCHANGED <<nSpawned, alive, stdinPipe>>
    /\ errorMessage' = [errorMessage EXCEPT ![w] = {}]
    /\ UNCHANGED execs
    /\ WorkerFrame

\* --------------------------------------------------------- specification
Next ==
    \/ \E c \in TypedChars : KeyRunes(c)
    \/ KeyEnter
    \/ KeyCtrlS
    \/ KeyCtrlC
    \/ RunFails
    \/ \E c \in BagToSet(cmds) : \E e \in StartErrors : StartAgentFails(c, e)
    \/ \E c \in BagToSet(cmds) : StartAgentSpawns(c)
    \/ \E c \in BagToSet(cmds) : SendChatMessage(c)
    \/ \E c \in BagToSet(cmds) : \E k \in 1..MaxLines : ListenReturns(c, k)
    \/ \E c \in BagToSet(cmds) : ListenEnds(c)
    \/ \E msg \in BagToSet(inbox) : HandleAgentStarted(msg)
    \/ \E msg \in BagToSet(inbox) : HandleAgentResponse(msg)
    \/ \E msg \in BagToSet(inbox) : HandleErr(msg)
    \/ \E w \in Workers : \E accepted \in BOOLEAN : WorkerReads(w, accepted)
    \/ \E w \in Workers : WorkerThinks(w)
    \/ \E w \in Workers : \E c \in Answers : WorkerStreams(w, c)
    \/ \E w \in Workers : \E c \in Answers : WorkerResponds(w, c)
    \/ \E w \in Workers : WorkerFails(w)
    \/ \E w \in Workers : WorkerExits(w)
    \/ \E w \in Workers : ToolStarts(w)
    \/ \E w \in Workers : \E ok \in BOOLEAN : ToolValidates(w, ok)
    \/ \E w \in Workers : \E ok \in BOOLEAN : ToolEmbeds(w, ok)
    \/ \E w \in Workers : \E ok \in BOOLEAN : ToolSearches(w, ok)
    \/ \E w \in Workers : \E outcome \in GenOutcomes : ToolGenerates(w, outcome)
    \/ \E w \in Workers : \E exists \in BOOLEAN : ToolChecksExisting(w, exists)
    \/ \E w \in Workers : \E ok \in BOOLEAN : ToolWrites(w, ok)
    \/ \E w \in Workers : \E run \in SampleRuns : ToolExecutes(w, run)

Spec == Init /\ [][Next]_vars

\* The handshake and the chat sends with a worker that also writes lines that
\* are no envelopes and answers no chat.
NextStray ==
    \/ \E c \in TypedChars : KeyRunes(c)
    \/ KeyEnter
    \/ KeyCtrlS
    \/ KeyCtrlC
    \/ \E c \in BagToSet(cmds) : \E e \in StartErrors : StartAgentFails(c, e)
    \/ \E c \in BagToSet(cmds) : StartAgentSpawns(c)
    \/ \E c \in BagToSet(cmds) : SendChatMessage(c)
    \/ \E c \in BagToSet(cmds) : \E k \in 1..MaxLines : ListenReturns(c, k)
    \/ \E c \in BagToSet(cmds) : ListenEnds(c)
    \/ \E msg \in BagToSet(inbox) : HandleAgentStarted(msg)
    \/ \E msg \in BagToSet(inbox) : HandleAgentResponse(msg)
    \/ \E msg \in BagToSet(inbox) : HandleErr(msg)
    \/ \E w \in Workers : \E accepted \in BOOLEAN : WorkerReads(w, accepted)
    \/ \E w \in Workers : \E kind \in StrayKinds : WorkerStray(w, kind)
    \/ \E w \in Workers : WorkerExits(w)

SpecStray == Init /\ [][NextStray]_vars

\* A session after the handshake with worker 1: the banner and then msgs in
\* the transcript, pending the commands scheduled and not yet run, out the
\* lines waiting on the worker's output, pc the worker's position, lines the
\* lines the worker may still write.
AfterHandshake(msgs, processing, pending, out, pc, lines) ==
    /\ state = "StateChat"
    /\ isProcessing = processing
    /\ agentReady = TRUE
    /\ messages = <<Entry("system", InitializedBanner, FALSE)>> \o msgs
    /\ agentProcess = 1
    /\ agentStdin = 1
    /\ agentStdout = 1
    /\ err = "nil"
    /\ apiKeyInput = <<"a">>
    /\ chatInput = <<>>
    /\ cmds = pending
    /\ inbox = EmptyBag
    /\ quit = FALSE
    /\ exitCode = NotExited
    /\ nSpawned = 1
    /\ alive = [w \in Workers |-> w = 1]
    /\ stdinPipe = [w \in Workers |-> <<>>]
    /\ stdoutPipe = [w \in Workers |-> IF w = 1 THEN out ELSE <<>>]
    /\ wpc = [w \in Workers |-> IF w = 1 THEN pc ELSE "none"]
    /\ attempt = [w \in Workers |-> 0]
    /\ budget = lines
    /\ InitToolLocals
    /\ nChats = Cardinality({i \in 1..Len(msgs) : msgs[i].Role = "user"})
    /\ nStarts = 1
    /\ runBase = -1

\* The chat turns alone: the session starts after the handshake, the worker
\* idle and no request in progress; the worker stays up.
InitTurn ==
    /\ AfterHandshake(<<>>, FALSE, SetToBag({Cmd("listen", 1, <<>>)}), <<>>, "idle",
                      MaxLines - 1)
    /\ artifact \in InitialFiles

NextTurn ==
    \/ \E c \in TypedChars : KeyRunes(c)
    \/ KeyEnter
    \/ KeyCtrlS
    \/ \E c \in BagToSet(cmds) : SendChatMessage(c)
    \/ \E c \in BagToSet(cmds) : \E k \in 1..MaxLines : ListenReturns(c, k)
    \/ \E msg \in BagToSet(inbox) : HandleAgentResponse(msg)
    \/ \E w \in Workers : \E accepted \in BOOLEAN : WorkerReads(w, accepted)
    \/ \E w \in Workers : WorkerThinks(w)
    \/ \E w \in Workers : \E c \in Answers : WorkerStreams(w, c)
    \/ \E w \in Workers : \E c \in Answers : WorkerResponds(w, c)
    \/ \E w \in Workers : WorkerFails(w)
    \/ \E w \in Workers : ToolStarts(w)
    \/ \E w \in Workers : \E ok \in BOOLEAN : ToolValidates(w, ok)
    \/ \E w \in Workers : \E ok \in BOOLEAN : ToolEmbeds(w, ok)
    \/ \E w \in Workers : \E ok \in BOOLEAN : ToolSearches(w, ok)
    \/ \E w \in Workers : \E outcome \in GenOutcomes : ToolGenerates(w, outcome)
    \/ \E w \in Workers : \E exists \in BOOLEAN : ToolChecksExisting(w, exists)
    \/ \E w \in Workers : \E ok \in BOOLEAN : ToolWrites(w, ok)
    \/ \E w \in Workers : \E run \in SampleRuns : ToolExecutes(w, run)

SpecTurn == InitTurn /\ [][NextTurn]_vars

\* The fold alone: after the handshake, worker 1 in a turn; the transcript
\* and the envelopes waiting on the worker's output are drawn from bounded
\* sets. The code appends an assistant entry only after an entry
\* of another role, so no transcript holds two assistant entries in a row.
\* The envelopes are of every type the switch has a case for and of one it
\* has none for ("status").
SeqsOver(S, n) == UNION {[1..k -> S] : k \in 0..n}

FoldInputs ==
    {EnvLine("response", st, c, "") : st \in {"", "initialized"}, c \in {<<>>} \cup Answers}
    \cup {EnvLine("stream_chunk", st, c, "") : st \in {"", "thinking"},
                                                c \in {<<>>} \cup Answers}
    \cup {EnvLine("tool_call", "", <<>>, "run_command"),
          EnvLine("error", "", <<"request failed">>, ""),
          EnvLine("status", "", <<"A">>, "")}

Entries == {Entry(r, c, FALSE) : r \in {"user", "assistant", "system"}, c \in Answers}

Transcripts ==
    {t \in SeqsOver(Entries, MaxTranscript) :
        \A i \in 1..(Len(t) - 1) : ~(t[i].Role = "assistant" /\ t[i + 1].Role = "assistant")}

InitFold ==
    \E t \in Transcripts : \E p \in SeqsOver(FoldInputs, MaxRun) \ {<<>>} :
    \E processing \in BOOLEAN :
        /\ AfterHandshake(t, processing, SetToBag({Cmd("listen", 1, <<>>)}), p, "turn", 0)
        /\ artifact = NoFile

NextFold ==
    \/ \E c \in BagToSet(cmds) : \E k \in 1..MaxRun : ListenReturns(c, k)
    \/ \E msg \in BagToSet(inbox) : HandleAgentResponse(msg)

SpecFold == InitFold /\ [][NextFold]_vars

\* The encoders alone. The session starts where one command that writes a
\* line is pending: startAgent for an API key (the textinput turns a pasted
\* newline into a space, so a key holds none), or sendChatMessage for a chat
\* message (the trimmed, non-empty text of the textarea) after the handshake
\* with worker 1.
ApiKeys == {s \in Strs(MaxTextLen) : s # <<>> /\ ~Contains(s, "NL")}

ChatTexts == {TrimSpace(s) : s \in Strs(MaxTextLen)} \ {<<>>}

InitStartPending(key) ==
    /\ state = "StateAPIKey"
    /\ isProcessing = TRUE
    /\ agentReady = FALSE
    /\ messages = <<>>
    /\ agentProcess = Nil
    /\ agentStdin = Nil
    /\ agentStdout = Nil
    /\ err = "nil"
    /\ apiKeyInput = key
    /\ chatInput = <<>>
    /\ cmds = SetToBag({Cmd("startAgent", Nil, key)})
    /\ inbox = EmptyBag
    /\ quit = FALSE
    /\ exitCode = NotExited
    /\ InitWorkers
    /\ nChats = 0
    /\ nStarts = 1
    /\ runBase = -1

InitSendPending(message) ==
    /\ AfterHandshake(<<Entry("user", message, FALSE)>>, TRUE,
                      SetToBag({Cmd("send", 1, message), Cmd("listen", 1, <<>>)}),
                      <<>>, "idle", MaxLines - 1)
    /\ artifact = NoFile

InitCodec ==
    \/ \E key \in ApiKeys : InitStartPending(key)
    \/ \E message \in ChatTexts : InitSendPending(message)

NextCodec ==
    \/ \E c \in BagToSet(cmds) : StartAgentSpawns(c)
    \/ \E c \in BagToSet(cmds) : SendChatMessage(c)
    \/ \E w \in Workers : \E accepted \in BOOLEAN : WorkerReads(w, accepted)

SpecCodec == InitCodec /\ [][NextCodec]_vars

\* One invocation of the test-generation tool: after the handshake, during
\* the turn of one chat request, execute has been entered and has sent its
\* tool_call envelope; a file may be at the test path already. The client
\* reads nothing meanwhile. The runs of the test runner are drawn from Runs.
InitTool ==
    /\ AfterHandshake(<<Entry("user", <<"a">>, FALSE)>>, TRUE,
                      SetToBag({Cmd("listen", 1, <<>>)}),
                      <<ToolCall("generate_unit_tests")>>, "validate", MaxToolLines)
    /\ artifact \in InitialFiles

NextTool ==
    \/ \E w \in Workers : \E ok \in BOOLEAN : ToolValidates(w, ok)
    \/ \E w \in Workers : \E ok \in BOOLEAN : ToolEmbeds(w, ok)
    \/ \E w \in Workers : \E ok \in BOOLEAN : ToolSearches(w, ok)
    \/ \E w \in Workers : \E outcome \in GenOutcomes : ToolGenerates(w, outcome)
    \/ \E w \in Workers : \E exists \in BOOLEAN : ToolChecksExisting(w, exists)
    \/ \E w \in Workers : \E ok \in BOOLEAN : ToolWrites(w, ok)
    \/ \E w \in Workers : \E run \in Runs : ToolExecutes(w, run)
    \/ \E w \in Workers : \E outcome \in GenOutcomes : \E wrote \in BOOLEAN :
            ToolRegenerates(w, outcome, wrote)

SpecTool == InitTool /\ [][NextTool]_vars

\* The same with one run of each kind.
NextToolOutcomes ==
    \/ \E w \in Workers : \E ok \in BOOLEAN : ToolValidates(w, ok)
    \/ \E w \in Workers : \E ok \in BOOLEAN : ToolEmbeds(w, ok)
    \/ \E w \in Workers : \E ok \in BOOLEAN : ToolSearches(w, ok)
    \/ \E w \in Workers : \E outcome \in GenOutcomes : ToolGenerates(w, outcome)
    \/ \E w \in Workers : \E exists \in BOOLEAN : ToolChecksExisting(w, exists)
    \/ \E w \in Workers : \E ok \in BOOLEAN : ToolWrites(w, ok)
    \/ \E w \in Workers : \E run \in OutcomeRuns : ToolExecutes(w, run)
    \/ \E w \in Workers : \E outcome \in GenOutcomes : \E wrote \in BOOLEAN :
            ToolRegenerates(w, outcome, wrote)

SpecToolOutcomes == InitTool /\ [][NextToolOutcomes]_vars

\* With the scheduling of the worker's event loop: an awaited call that has
\* returned is resumed.
SpecToolLive == SpecToolOutcomes /\ WF_vars(NextToolOutcomes)

\* One round of the loop: the invocation has come to its generation; the
\* worker may write the lines of the write and of one round, so the first
\* execution and the regeneration after it are made, for every run of Runs.
RoundLines ==
    <<ToolCall("run_command"), FailedNotice(1), RegeneratingNotice(2),
      RegeneratedNotice(2), ToolCall("run_command")>>

InitRound ==
    \E file \in InitialFiles :
        /\ AfterHandshake(<<Entry("user", <<"a">>, FALSE)>>, TRUE,
                          SetToBag({Cmd("listen", 1, <<>>)}),
                          <<ToolCall("generate_unit_tests")>>, "generate",
                          Len(RoundLines) + (IF file = NoFile THEN 0 ELSE 1))
        /\ artifact = file

NextRound ==
    \/ \E w \in Workers : \E outcome \in GenOutcomes : ToolGenerates(w, outcome)
    \/ \E w \in Workers : \E exists \in BOOLEAN : ToolChecksExisting(w, exists)
    \/ \E w \in Workers : \E ok \in BOOLEAN : ToolWrites(w, ok)
    \/ \E w \in Workers : \E run \in Runs : ToolExecutes(w, run)
    \/ \E w \in Workers : \E outcome \in GenOutcomes : \E wrote \in BOOLEAN :
            ToolRegenerates(w, outcome, wrote)

SpecRound == InitRound /\ [][NextRound]_vars

\* Invocations of the tool from their entry on: after the handshake, during
\* the turn of one chat request, the worker is about to enter execute; an
\* invocation that has returned may be followed by another while the worker
\* may still write. The client reads nothing meanwhile.
InitInvocation ==
    /\ AfterHandshake(<<Entry("user", <<"a">>, FALSE)>>, TRUE,
                      SetToBag({Cmd("listen", 1, <<>>)}), <<>>, "turn", MaxToolLines)
    /\ artifact \in InitialFiles

NextInvocation ==
    \/ \E w \in Workers : ToolStarts(w)
    \/ NextToolOutcomes

SpecInvocation == InitInvocation /\ [][NextInvocation]_vars

\* The chat turns with a worker that may end: after the handshake the worker
\* answers from the model alone (no tool), may write a line longer than the
\* scanner's largest token, and may exit; the client reads, folds and handles
\* the errors of the stream.
NextChat ==
    \/ \E c \in TypedChars : KeyRunes(c)
    \/ KeyEnter
    \/ KeyCtrlS
    \/ \E c \in BagToSet(cmds) : SendChatMessage(c)
    \/ \E c \in BagToSet(cmds) : \E k \in 1..MaxLines : ListenReturns(c, k)
    \/ \E c \in BagToSet(cmds) : ListenEnds(c)
    \/ \E msg \in BagToSet(inbox) : HandleAgentResponse(msg)
    \/ \E msg \in BagToSet(inbox) : HandleErr(msg)
    \/ \E w \in Workers : \E accepted \in BOOLEAN : WorkerReads(w, accepted)
    \/ \E w \in Workers : WorkerThinks(w)
    \/ \E w \in Workers : \E c \in Answers : WorkerStreams(w, c)
    \/ \E w \in Workers : \E c \in Answers : WorkerResponds(w, c)
    \/ \E w \in Workers : WorkerFails(w)
    \/ \E w \in Workers : WorkerStray(w, "toolong")
    \/ \E w \in Workers : WorkerExits(w)

\* A worker in a turn ends it: with the final response, with an error
\* envelope, or by exiting.
WorkerEndsTurn(w) ==
    /\ Running(w, "turn")
    /\ \/ \E c \in Answers : WorkerResponds(w, c)
       \/ WorkerFails(w)
       \/ WorkerExits(w)

\* The scheduling: the runtime runs every command it was handed and delivers
\* every message to Update (bubbletea's command and event loops); the worker
\* reads the lines on its input and ends every turn it has begun.
ChatFairness ==
    /\ WF_vars(\E c \in BagToSet(cmds) : SendChatMessage(c))
    /\ WF_vars(\E c \in BagToSet(cmds) : \E k \in 1..MaxLines : ListenReturns(c, k))
    /\ WF_vars(\E c \in BagToSet(cmds) : ListenEnds(c))
    /\ WF_vars(\E msg \in BagToSet(inbox) : HandleAgentResponse(msg))
    /\ WF_vars(\E msg \in BagToSet(inbox) : HandleErr(msg))
    /\ WF_vars(\E w \in Workers : \E accepted \in BOOLEAN : WorkerReads(w, accepted))
    /\ WF_vars(\E w \in Workers : WorkerEndsTurn(w))

SpecChatLive == InitTurn /\ [][NextChat]_vars /\ ChatFairness

\* ------------------------------------------------------------------ claims
Closed == "agent stream closed unexpectedly"

\* The envelopes among the lines of a pipe, in order.
EnvLines(p) == SelectSeq(p, LAMBDA l : l.kind = "env")

IsPrefix(s, t) == Len(s) <= Len(t) /\ SubSeq(t, 1, Len(s)) = s

\* The chat envelopes waiting on a worker's input.
ChatLines(w) ==
    Cardinality({i \in 1..Len(stdinPipe[w]) : ParseLine(stdinPipe[w][i]).type = "chat"})

\* The worker is executing a chat request.
Busy(w) == alive[w] /\ wpc[w] # "idle"

IsInitialized(line) == line.type = "response" /\ line.status = "initialized"

\* C1. Single-flight chat: while isProcessing is true, an Enter or Ctrl+S key
\* in the chat state schedules no write to the worker's input, writes nothing
\* to it, appends nothing to the transcript and leaves isProcessing true.
C1_SingleFlight ==
    [][(isProcessing /\ state = "StateChat" /\ (KeyEnter \/ KeyCtrlS))
        => (/\ cmds' = cmds
            /\ stdinPipe' = stdinPipe
            /\ messages' = messages
            /\ isProcessing')]_vars

\* A send attempt that only isProcessing rejects: chat state, worker ready,
\* a non-empty message typed, a request in progress.
C1_Witness ==
    /\ state = "StateChat"
    /\ agentReady
    /\ isProcessing
    /\ TrimSpace(chatInput) # <<>>

\* C2. At most one chat request in flight: no chat envelope waits on the
\* input of a worker that is still executing an earlier chat request,
\* whatever envelopes the worker and its tool have emitted during it.
C2_OneChatInFlight ==
    \A w \in Workers : Busy(w) => ChatLines(w) = 0

\* C3. In-order, lossless delivery: the envelopes on a worker's output only
\* grow at the end (the worker writes) or lose their first one to a
\* listenToAgent call that returns exactly that envelope to Update; no step
\* drops or reorders an envelope, however the lines are batched.
C3_InOrderLossless ==
    [][\A w \in Workers :
        LET before == EnvLines(stdoutPipe[w])
            after == EnvLines(stdoutPipe'[w])
        IN \/ IsPrefix(before, after)
           \/ /\ before # <<>>
              /\ after = Tail(before)
              /\ inbox' = AddTo(inbox, Msg("agentResponse", w, Head(before), ""))]_vars

\* C4. Every line written to a worker's input (the init line of startAgent,
\* the chat line of sendChatMessage) parses as an envelope with a type, for
\* every API key and chat text over quotes, backslashes and newlines; no
\* empty line is written.
C4_EveryLineParseable ==
    \A w \in Workers : \A i \in 1..Len(stdinPipe[w]) :
        ParseLine(stdinPipe[w][i]).ok

\* C5. Envelope round-trip: the line written for a chat message m, when it
\* decodes, decodes to an envelope of type chat with message m, and the line
\* written for an API key k to an envelope of type init with key k. (Lines
\* that do not decode are C4's. One command was pending: the key is
\* apiKeyInput while the client awaits the handshake, the message is the
\* last transcript entry afterwards.)
C5_RoundTrip ==
    \A w \in Workers : \A i \in 1..Len(stdinPipe[w]) :
        LET env == ParseLine(stdinPipe[w][i]) IN
        env.ok =>
            IF state = "StateAPIKey"
            THEN env.type = "init" /\ env.text = apiKeyInput
            ELSE env.type = "chat" /\ env.text = Last(messages).Content

\* C6. Malformed-line tolerance: a listenToAgent call that reads lines that
\* are no envelopes followed by an envelope returns exactly that envelope,
\* changes nothing of the client's Model and reports no error.
C6_MalformedTolerance ==
    [][\A c \in BagToSet(cmds) : \A k \in 1..MaxLines :
        (ListenReturns(c, k) /\ EnvLines(SubSeq(stdoutPipe[c.h], 1, k)) # <<>>)
        => /\ inbox' = AddTo(inbox, Msg("agentResponse", c.h,
                                        Head(EnvLines(stdoutPipe[c.h])), ""))
           /\ cmds' = RemoveFrom(cmds, c)
           /\ UNCHANGED clientVars]_vars

\* C7 as stated. Dedup idempotence: folding a response with content C into a
\* transcript whose last entry is an assistant entry with content C leaves
\* the transcript unchanged and clears isProcessing.
C7_DedupIdempotent_Stated ==
    [][\A msg \in BagToSet(inbox) :
        (/\ msg.kind = "agentResponse"
         /\ msg.line.type = "response"
         /\ LastIsAssistant
         /\ Last(messages).Content = msg.line.content
         /\ HandleAgentResponse(msg))
        => (messages' = messages /\ ~isProcessing')]_vars

\* C7 amended. Dedup idempotence for a response whose status is not
\* "initialized": folding it with content C into a transcript whose last
\* entry is an assistant entry with content C leaves the transcript unchanged
\* and clears isProcessing.
C7_DedupIdempotent ==
    [][\A msg \in BagToSet(inbox) :
        (/\ msg.kind = "agentResponse"
         /\ msg.line.type = "response"
         /\ msg.line.status # "initialized"
         /\ LastIsAssistant
         /\ Last(messages).Content = msg.line.content
         /\ HandleAgentResponse(msg))
        => (messages' = messages /\ ~isProcessing')]_vars

\* A response with the last assistant entry's content, and no initialized
\* status, is about to be folded while a request is in progress.
C7_Witness ==
    \E msg \in BagToSet(inbox) :
        /\ msg.kind = "agentResponse"
        /\ msg.line.type = "response"
        /\ msg.line.status # "initialized"
        /\ isProcessing
        /\ LastIsAssistant
        /\ Last(messages).Content = msg.line.content
        /\ ENABLED HandleAgentResponse(msg)

\* C8. Streaming refinement: folding a stream_chunk with content and a status
\* other than thinking leaves the transcript ending with one assistant entry
\* (the entry before it is no assistant entry) that holds the chunk's
\* content, the entries before it as they were, and the transcript at most
\* one entry longer than before the run of such chunks began.
C8_StreamingRefinement ==
    [][\A msg \in BagToSet(inbox) :
        (/\ msg.kind = "agentResponse"
         /\ IsContentChunk(msg.line)
         /\ HandleAgentResponse(msg))
        => LET base == IF runBase = -1 THEN Len(messages) ELSE runBase
               n == Len(messages')
           IN /\ base <= n /\ n <= base + 1
              /\ n >= 1
              /\ messages'[n] = Entry("assistant", msg.line.content, FALSE)
              /\ n >= 2 => messages'[n - 1].Role # "assistant"
              /\ SubSeq(messages', 1, n - 1) = SubSeq(messages, 1, n - 1)]_vars

\* Inside a run: a chunk has been folded and the next chunk, with another
\* content, is about to be.
C8_Witness ==
    /\ runBase # -1
    /\ \E msg \in BagToSet(inbox) :
        /\ msg.kind = "agentResponse"
        /\ IsContentChunk(msg.line)
        /\ msg.line.content # Last(messages).Content
        /\ ENABLED HandleAgentResponse(msg)

\* C9. The state changes only from StateAPIKey to StateChat and only in the
\* step that folds a response with status "initialized"; and folding such a
\* response always ends in StateChat with isProcessing false.
C9_StateChange ==
    [][/\ state' # state
          => /\ state = "StateAPIKey"
             /\ state' = "StateChat"
             /\ \E msg \in BagToSet(inbox) :
                    /\ msg.kind = "agentResponse"
                    /\ IsInitialized(msg.line)
                    /\ HandleAgentResponse(msg)
       /\ \A msg \in BagToSet(inbox) :
            (/\ msg.kind = "agentResponse"
             /\ IsInitialized(msg.line)
             /\ HandleAgentResponse(msg))
            => (state' = "StateChat" /\ ~isProcessing')]_vars

\* The initialized response has just been folded.
C9_Witness ==
    /\ state = "StateChat"
    /\ ~isProcessing
    /\ messages = <<Entry("system", InitializedBanner, FALSE)>>

\* C10. A listenToAgent call on an output that has ended and holds no line
\* returns the "stream closed unexpectedly" error; handling that error
\* appends one error-flagged system entry, clears isProcessing and schedules
\* no command, so the stream is not read again.
C10_StreamEnd ==
    [][/\ \A c \in BagToSet(cmds) :
            (/\ c.op = "listen"
             /\ c.h # Nil
             /\ stdoutPipe[c.h] = <<>>
             /\ cmds' = RemoveFrom(cmds, c))
            => inbox' = AddTo(inbox, Msg("err", Nil, NoLine, Closed))
       /\ \A msg \in BagToSet(inbox) :
            (msg.e = Closed /\ HandleErr(msg))
            => /\ messages' = Append(messages,
                                Entry("system", <<"System Error", Closed>>, TRUE))
               /\ ~isProcessing'
               /\ cmds' = cmds]_vars

\* The error has been folded and no read of any stream is scheduled.
C10_Witness ==
    /\ err = Closed
    /\ ~isProcessing
    /\ Len(messages) > 0
    /\ Last(messages) = Entry("system", <<"System Error", Closed>>, TRUE)
    /\ \A c \in BagToSet(cmds) : c.op # "listen"

\* The artifact is one the tool wrote.
IsWritten(file) == file.kind \in {"generated", "placeholder"}

\* The positions of executeTestsWithRetry.
LoopPcs == {"exec", "regen"}

\* C11. On interrupt the child is killed: after the client has quit on
\* Ctrl+C or Esc, no worker process it spawned is running, however the key
\* presses interleave with the startAgent command and its agentStartedMsg.
C11_NoWorkerLeftRunning ==
    (quit /\ exitCode = 0) => \A w \in Workers : ~alive[w]

\* C12 as stated. Handling a startup failure (missing worker entry point,
\* pipe creation failure, process spawn failure) ends the session with exit
\* status 1, and a quit on interrupt ends it with exit status 0.
C12_ExitStatus_Stated ==
    [][/\ \A msg \in BagToSet(inbox) :
            (msg.e \in StartErrors /\ HandleErr(msg)) => (quit' /\ exitCode' = 1)
       /\ KeyCtrlC => (quit' /\ exitCode' = 0)]_vars

\* C12 amended. The session ends with exit status 0 on a quit by interrupt
\* and with exit status 1 only when Program.Run returns an error; a startup
\* failure does not end it: handling the failure records it, appends a
\* system-error entry, clears isProcessing and leaves the client running in
\* the state it was in.
C12_ExitStatus ==
    [][/\ \A msg \in BagToSet(inbox) :
            (msg.e \in StartErrors /\ HandleErr(msg))
            => /\ ~quit' /\ exitCode' = NotExited
               /\ err' = msg.e
               /\ messages' = Append(messages,
                                Entry("system", <<"System Error", msg.e>>, TRUE))
               /\ ~isProcessing'
               /\ state' = state
       /\ KeyCtrlC => (quit' /\ exitCode' = 0)
       /\ exitCode' # exitCode
            => /\ exitCode = NotExited
               /\ \/ KeyCtrlC /\ exitCode' = 0
                  \/ RunFails /\ exitCode' = 1]_vars

\* A startup failure has been handled and the session goes on: the client
\* is in the API-key state, running, ready for another Enter.
C12_Witness ==
    /\ err \in StartErrors
    /\ ~quit
    /\ exitCode = NotExited
    /\ state = "StateAPIKey"
    /\ ~isProcessing
    /\ Len(messages) > 0
    /\ Last(messages).IsError

\* C13. Retry ceiling: an execution that fails before the third is followed
\* by a regeneration, a regeneration, whatever its outcome, by the next
\* execution, and the third failed execution by the return of success false
\* with attempts 3; so a run in which every execution fails makes exactly 3
\* executions.
C13_RetryCeiling ==
    /\ [][\A w \in Workers :
            /\ \A run \in OutcomeRuns :
                (ToolExecutes(w, run) /\ ~IsSuccess(run))
                => IF execs'[w] < maxRetries
                   THEN toolResult'[w] = NoResult /\ wpc'[w] = "regen"
                   ELSE /\ execs'[w] = maxRetries
                        /\ toolResult'[w].kind = "testResults"
                        /\ ~toolResult'[w].success
                        /\ toolResult'[w].attempts = maxRetries
                        /\ wpc'[w] = "turn"
            /\ (wpc[w] = "regen" /\ wpc'[w] # "regen")
                => /\ wpc'[w] = "exec"
                   /\ toolResult'[w] = NoResult
                   /\ execs'[w] = execs[w]]_vars
    /\ [](\A w \in Workers :
            (toolResult[w].kind = "testResults" /\ ~toolResult[w].success)
            => (execs[w] = maxRetries /\ toolResult[w].attempts = maxRetries))

\* Every execution failed and the loop has returned.
C13_Witness ==
    /\ toolResult[1].kind = "testResults"
    /\ ~toolResult[1].success
    /\ execs[1] = maxRetries
    /\ wpc[1] = "turn"

\* C14. The loop never retries indefinitely: the test runner is executed at
\* most 3 times, every execution has an attempt number in 1..3 (the number
\* of executions before it, plus one), a returned loop has made at least 1
\* execution, and a loop that is running eventually returns, whatever the
\* test runner, the backend and the writes do.
C14_BoundedRetry ==
    /\ [](\A w \in Workers :
            /\ execs[w] \in 0..maxRetries
            /\ wpc[w] = "exec"
                => (attempt[w] \in 1..maxRetries /\ attempt[w] = execs[w] + 1)
            /\ toolResult[w].kind = "testResults" => execs[w] \in 1..maxRetries)
    /\ \A w \in Workers :
            (wpc[w] \in LoopPcs) ~> (toolResult[w].kind = "testResults")

\* The loop has returned after more than one execution.
C14_Witness ==
    /\ toolResult[1].kind = "testResults"
    /\ execs[1] = 2
    /\ wpc[1] = "turn"

\* C15. The first successful execution returns at once: the step in which an
\* execution succeeds returns success true with the attempt number of that
\* execution (in 1..3), with no regeneration and no write; and after a
\* success no step executes the runner, regenerates or writes the artifact.
C15_ReturnsOnFirstSuccess ==
    [][\A w \in Workers :
        /\ \A run \in OutcomeRuns :
            (ToolExecutes(w, run) /\ IsSuccess(run))
            => /\ toolResult'[w].kind = "testResults"
               /\ toolResult'[w].success
               /\ toolResult'[w].attempt = attempt[w]
               /\ attempt[w] \in 1..maxRetries
               /\ attempt[w] = execs'[w]
               /\ wpc'[w] = "turn"
               /\ UNCHANGED <<artifact, generated, errorGuidance, attempt>>
        /\ toolResult[w].success
            => /\ wpc[w] \notin LoopPcs
               /\ UNCHANGED <<artifact, generated, errorGuidance, execs>>]_vars

\* The third execution succeeded after two failures.
C15_Witness ==
    /\ toolResult[1].success
    /\ toolResult[1].attempt = maxRetries
    /\ execs[1] = maxRetries
    /\ wpc[1] = "turn"

C17_Guidance_Stated ==
    [][\A w \in Workers : \A outcome \in {"text", "raised"} : \A wrote \in BOOLEAN :
        ToolRegenerates(w, outcome, wrote)
        => /\ Includes(errorMessage[w], "redeclared")
                => errorGuidance'[w] = "duplicate-declaration"
           /\ Includes(errorMessage[w], "syntax error")
                => errorGuidance'[w] = "syntax-error"]_vars

\* C17 amended. A regeneration whose error text contains "redeclared" builds
\* its prompt with the duplicate-declaration guidance, whatever other markers
\* the text contains; one whose error text contains "syntax error" and none
\* of "redeclared", "undefined:" and "unknown field" with the syntax-error
\* guidance.
C17_Guidance ==
    [][\A w \in Workers : \A outcome \in {"text", "raised"} : \A wrote \in BOOLEAN :
        ToolRegenerates(w, outcome, wrote)
        => /\ Includes(errorMessage[w], "redeclared")
                => errorGuidance'[w] = "duplicate-declaration"
           /\ (/\ Includes(errorMessage[w], "syntax error")
               /\ errorMessage[w] \cap {"redeclared", "undefined:", "unknown field"} = {})
                => errorGuidance'[w] = "syntax-error"]_vars

\* An execution has failed with an error text that contains "redeclared"
\* and another marker, and the regeneration is about to build its prompt.
C17_Witness ==
    /\ wpc[1] = "regen"
    /\ Includes(errorMessage[1], "redeclared")
    /\ Includes(errorMessage[1], "undefined:")

\* C18. Fallback guarantee: a placeholder at the artifact path, the one of
\* the initial generation and the one of every regeneration, holds a skip
\* marker and the reason of the backend's failure.
C18_FallbackGuarantee ==
    artifact.kind = "placeholder"
        => (artifact.skip /\ artifact.reason = "backend error")

\* C19 as stated. An invocation that has returned after an error of the
\* embedding service, the similarity index or the generative backend has
\* left a placeholder at the artifact path.
C19_ServiceErrors_Stated ==
    \A w \in Workers :
        toolResult[w].error \in {"Failed to generate embedding", "Database search failed"}
            => artifact.kind = "placeholder"

\* C19 amended. An error of the generative backend degrades to a
\* placeholder: generateTests returns the fallback template, the tool goes on
\* to write it, and every invocation that returns test results leaves an
\* artifact at the path. An error of the embedding service or of the
\* similarity index aborts the tool call: execute returns only the error and
\* writes nothing.
C19_ServiceErrors ==
    /\ [][\A w \in Workers :
            /\ ToolGenerates(w, "raised")
                => /\ generated'[w] = FallbackTemplate
                   /\ wpc'[w] = "stat"
                   /\ toolResult'[w] = NoResult
            /\ (wpc[w] = "write" /\ wpc'[w] = "exec") => artifact' = generated[w]
            /\ (ToolEmbeds(w, FALSE) \/ ToolSearches(w, FALSE))
                => /\ toolResult'[w].kind = "error"
                   /\ wpc'[w] = "turn"
                   /\ artifact' = artifact]_vars
    /\ [](\A w \in Workers :
            toolResult[w].kind = "testResults" => IsWritten(artifact))

\* The backend raised in the initial generation and the invocation has
\* returned with the fallback template at the path.
C19_Witness ==
    /\ toolResult[1].kind = "testResults"
    /\ artifact = FallbackTemplate

\* C20 as stated. Once written the artifact stays at the path, and after a
\* final failure its content is the last-generated version.
C20_ArtifactKept_Stated ==
    /\ [][IsWritten(artifact) => IsWritten(artifact')]_vars
    /\ [](\A w \in Workers :
            (toolResult[w].kind = "testResults" /\ ~toolResult[w].success)
            => artifact = generated[w])

\* C20 amended. Once written the artifact stays at the path: every step
\* leaves it as it is or overwrites it with the content a generation of the
\* tool produced; after a final failure its content is the version last
\* written, which is the last-generated version unless the write of that
\* version failed.
C20_ArtifactKept ==
    /\ [][/\ IsWritten(artifact) => IsWritten(artifact')
          /\ artifact' # artifact
                => \E w \in Workers :
                        /\ wpc[w] \in {"write", "regen"}
                        /\ artifact' = generated'[w]]_vars
    /\ [](\A w \in Workers :
            (toolResult[w].kind = "testResults" /\ ~toolResult[w].success)
            => /\ IsWritten(artifact)
               /\ artifact.attempt <= generated[w].attempt
               /\ artifact.attempt = generated[w].attempt => artifact = generated[w])

\* A final failure with the version regenerated for the third attempt at
\* the path.
C20_Witness ==
    /\ toolResult[1].kind = "testResults"
    /\ ~toolResult[1].success
    /\ artifact = generated[1]
    /\ artifact.attempt = maxRetries

\* The positions inside execute.
ToolPcs == {"validate", "embed", "search", "generate", "stat", "write", "exec", "regen"}

IsToolStart(line) == line = ToolCall("generate_unit_tests")

\* The lines a worker has written since it last entered execute, the
\* tool_call envelope of the entry left out.
RECURSIVE SinceToolCall(_)
SinceToolCall(p) ==
    IF p = <<>> THEN <<>>
    ELSE IF IsToolStart(Last(p)) THEN <<>>
    ELSE Append(SinceToolCall(SubSeq(p, 1, Len(p) - 1)), Last(p))

HasToolStart(p) == \E i \in 1..Len(p) : IsToolStart(p[i])

HasReply(p) == \E i \in 1..Len(p) : p[i].type \in {"response", "error"}

HasError(p) == \E i \in 1..Len(p) : p[i].type = "error"

Appended(w) == SubSeq(stdoutPipe'[w], Len(stdoutPipe[w]) + 1, Len(stdoutPipe'[w]))

\* The step ends the invocation with an error result.
ReturnsError(w) == toolResult[w].kind # "error" /\ toolResult'[w].kind = "error"

AbortErrors == {"not a Go file", "Failed to generate embedding", "Database search failed"}

\* C23. Validation and configuration errors abort the operation and are
\* never retried: the step in which the validation, the embedding or the
\* search fails returns the error result and leaves the artifact, the
\* generated content and the counters as they were; an invocation that has
\* returned such an error has written no artifact, executed no test and
\* regenerated nothing, and it takes no further step.
C23_AbortsWithoutRetry ==
    /\ [][\A w \in Workers :
            (ToolValidates(w, FALSE) \/ ToolEmbeds(w, FALSE) \/ ToolSearches(w, FALSE))
            => /\ toolResult'[w].kind = "error"
               /\ toolResult'[w].error \in AbortErrors
               /\ wpc'[w] = "turn"
               /\ UNCHANGED <<artifact, generated, execs, attempt, stdoutPipe>>]_vars
    /\ [](\A w \in Workers :
            toolResult[w].error \in AbortErrors
            => /\ wpc[w] = "turn"
               /\ artifact \in InitialFiles
               /\ generated[w] = NoFile
               /\ execs[w] = 0
               /\ attempt[w] = 0
               /\ ~ENABLED NextTool)

\* The embedding has failed (the endpoint setting is missing or the service
\* is down) after a validation that passed, and the invocation has returned.
C23_Witness ==
    /\ toolResult[1] = ErrorResult("Failed to generate embedding")
    /\ wpc[1] = "turn"
    /\ execs[1] = 0

\* The client has folded a response with status "initialized": the banner it
\* appended is in the transcript.
HandshakeFolded ==
    \E i \in 1..Len(messages) : messages[i] = Entry("system", InitializedBanner, FALSE)

IsChatLine(line) == ParseLine(line).ok /\ ParseLine(line).type = "chat"

IsInitLine(line) == ParseLine(line).ok /\ ParseLine(line).type = "init"

\* C24. No chat envelope is written while the client is not Active: a step
\* that writes to a worker's input after its spawn writes one chat line, to
\* a worker that was spawned with its init line, in the chat state and after
\* the initialized response was folded; a chat send is only scheduled in
\* that state; no init line follows a chat line on an input; and in the
\* API-key state no key press appends a transcript entry, schedules a send
\* or writes to a worker.
C24_ChatOnlyWhenActive ==
    /\ [][/\ \A c \in BagToSet(cmds) : \A w \in Workers :
                (SendChatMessage(c) /\ stdinPipe'[w] # stdinPipe[w])
                => /\ c.h = w
                   /\ w <= nSpawned
                   /\ stdinPipe'[w] = Append(stdinPipe[w], ChatLine(c.text))
                   /\ state = "StateChat"
                   /\ agentReady
                   /\ HandshakeFolded
          /\ (state = "StateAPIKey"
                /\ (KeyEnter \/ KeyCtrlS \/ \E ch \in TypedChars : KeyRunes(ch)))
                => /\ messages' = messages
                   /\ stdinPipe' = stdinPipe
                   /\ nChats' = nChats
                   /\ \A c \in BagToSet(cmds') : c.op # "send"]_vars
    /\ [](/\ \A c \in BagToSet(cmds) :
                c.op = "send"
                => (c.h # Nil /\ c.h <= nSpawned /\ state = "StateChat" /\ HandshakeFolded)
          /\ \A w \in Workers : \A i \in 1..Len(stdinPipe[w]) :
                IsChatLine(stdinPipe[w][i])
                => /\ state = "StateChat"
                   /\ HandshakeFolded
                   /\ \A j \in i..Len(stdinPipe[w]) : ~IsInitLine(stdinPipe[w][j]))

\* A chat line waits on the input of the second worker, spawned after the
\* first one refused the handshake.
C24_Witness ==
    /\ nSpawned = 2
    /\ \E i \in 1..Len(stdinPipe[2]) : IsChatLine(stdinPipe[2][i])

\* A response with a status other than "initialized" is waiting to be folded.
IsPlainResponse(msg) ==
    /\ msg.kind = "agentResponse"
    /\ msg.line.type = "response"
    /\ msg.line.status # "initialized"

\* C25. Folding a response with content and a status other than
\* "initialized": after an empty transcript or a last entry that is no
\* assistant entry, exactly one assistant entry with that content is
\* appended; after a last assistant entry with another content the
\* transcript is left as it is; isProcessing becomes false in both cases.
\* A response with empty content and such a status changes neither.
C25_ResponseFold ==
    [][\A msg \in BagToSet(inbox) :
        (IsPlainResponse(msg) /\ HandleAgentResponse(msg))
        => IF msg.line.content = <<>>
           THEN messages' = messages /\ isProcessing' = isProcessing
           ELSE /\ ~isProcessing'
                /\ ~LastIsAssistant
                    => messages' = Append(messages,
                                    Entry("assistant", msg.line.content, FALSE))
                /\ (LastIsAssistant /\ Last(messages).Content # msg.line.content)
                    => messages' = messages]_vars

\* A response is about to be folded, during a request, into a transcript
\* whose last entry is an assistant entry with another content.
C25_Witness ==
    \E msg \in BagToSet(inbox) :
        /\ IsPlainResponse(msg)
        /\ msg.line.content # <<>>
        /\ isProcessing
        /\ LastIsAssistant
        /\ Last(messages).Content # msg.line.content
        /\ ENABLED HandleAgentResponse(msg)

\* C26. Folding an error envelope, in either client state, appends exactly
\* one system entry flagged isError that carries the message, sets
\* isProcessing to false, leaves the entries before it, the state and
\* agentReady as they were, and schedules the next read of the output.
C26_ErrorFold ==
    [][\A msg \in BagToSet(inbox) :
        (/\ msg.kind = "agentResponse"
         /\ msg.line.type = "error"
         /\ HandleAgentResponse(msg))
        => /\ messages' = Append(messages,
                            Entry("system", <<"Error">> \o msg.line.content, TRUE))
           /\ ~isProcessing'
           /\ state' = state
           /\ agentReady' = agentReady
           /\ cmds' = AddTo(cmds, Cmd("listen", agentStdout, <<>>))]_vars

\* The worker refused the handshake: its error envelope has been folded in
\* the API-key state, during the start, and the read is scheduled again.
C26_Witness ==
    /\ state = "StateAPIKey"
    /\ ~isProcessing
    /\ Len(messages) = 1
    /\ Last(messages) = Entry("system", <<"Error", "initialization failed">>, TRUE)
    /\ BagIn(Cmd("listen", agentStdout, <<>>), cmds)

EnvelopeTypes == {"response", "tool_call", "stream_chunk", "error"}

ToolEntry(tool) == Entry("tool", <<"Tool", tool>> \o ToolParams(tool), FALSE)

\* C27. Folding a tool_call envelope appends exactly one entry of role tool
\* and leaves every entry before it, isProcessing and the state as they
\* were, also after a tool entry for the same tool and arguments; folding a
\* stream_chunk envelope leaves isProcessing and the state as they were; an
\* envelope of a type with no case changes nothing of the transcript,
\* isProcessing or the state.
C27_ToolCallFrame ==
    [][\A msg \in BagToSet(inbox) :
        (msg.kind = "agentResponse" /\ HandleAgentResponse(msg))
        => /\ msg.line.type = "tool_call"
                => /\ messages' = Append(messages, ToolEntry(msg.line.tool))
                   /\ UNCHANGED <<isProcessing, state, agentReady>>
           /\ msg.line.type = "stream_chunk"
                => UNCHANGED <<isProcessing, state, agentReady>>
           /\ msg.line.type \notin EnvelopeTypes
                => UNCHANGED <<messages, isProcessing, state, agentReady>>]_vars

\* A tool_call is about to be folded, during a request, after the tool entry
\* of a tool_call for the same tool and arguments.
C27_Witness ==
    \E msg \in BagToSet(inbox) :
        /\ msg.kind = "agentResponse"
        /\ msg.line.type = "tool_call"
        /\ isProcessing
        /\ Len(messages) > 0
        /\ Last(messages) = ToolEntry(msg.line.tool)
        /\ ENABLED HandleAgentResponse(msg)

\* C28. The transcript is append-only except for streaming refinement: no
\* step makes it shorter or changes an entry other than its last one, and a
\* step changes its last entry only by folding a stream_chunk with content:
\* the entry is an assistant entry, only its content is replaced, by the
\* chunk's, and nothing is appended.
C28_AppendOnly ==
    [][LET n == Len(messages) IN
        /\ Len(messages') >= n
        /\ \A i \in 1..(n - 1) : messages'[i] = messages[i]
        /\ (n > 0 /\ messages'[n] # messages[n])
            => /\ Len(messages') = n
               /\ messages[n].Role = "assistant"
               /\ \E msg \in BagToSet(inbox) :
                    /\ msg.kind = "agentResponse"
                    /\ msg.line.type = "stream_chunk"
                    /\ msg.line.content # <<>>
                    /\ HandleAgentResponse(msg)
                    /\ messages'[n] = [messages[n] EXCEPT !.Content = msg.line.content]]_vars

\* A chunk with another content is about to replace the content of the last
\* assistant entry, which follows the user's entry.
C28_Witness ==
    /\ Len(messages) >= 3
    /\ messages[Len(messages) - 1].Role = "user"
    /\ \E msg \in BagToSet(inbox) :
        /\ msg.kind = "agentResponse"
        /\ IsContentChunk(msg.line)
        /\ LastIsAssistant
        /\ msg.line.content # Last(messages).Content
        /\ ENABLED HandleAgentResponse(msg)

\* The listenToAgent commands scheduled and not yet returned.
PendingListens ==
    LET ls == {c \in BagToSet(cmds) : c.op = "listen"} IN
    BagCardinality([c \in ls |-> CopiesIn(c, cmds)])

\* The envelopes a read has returned and Update has not yet folded.
InFlight ==
    LET es == {msg \in BagToSet(inbox) : msg.kind = "agentResponse"} IN
    BagCardinality([msg \in es |-> CopiesIn(msg, inbox)])

\* C29. At most one read of the worker's output is outstanding: at most one
\* listenToAgent command is pending, also after a worker was spawned again
\* following an error during the handshake, and at most one envelope is in
\* flight.
C29_OneReadOutstanding ==
    /\ PendingListens <= 1
    /\ InFlight <= 1

\* What a failed execution does, by its attempt number: below the ceiling it
\* keeps the error text for the regeneration call; at the ceiling the loop
\* returns and no regeneration call is made. It touches no content.
AfterFailedExecution(w, run) ==
    /\ UNCHANGED <<artifact, generated>>
    /\ IF attempt[w] < maxRetries
       THEN /\ wpc'[w] = "regen"
            /\ errorMessage'[w] = ErrorText(run)
            /\ attempt'[w] = attempt[w]
            /\ toolResult'[w] = NoResult
       ELSE /\ wpc'[w] = "turn"
            /\ toolResult'[w] = FailedResult

\* What every regeneration step does: one call, made with the error text
\* of the failed execution, then the next attempt's execution; an error of
\* the backend gives the placeholder and is not retried.
OneRegeneration(w, outcome) ==
    /\ attempt[w] < maxRetries
    /\ attempt'[w] = attempt[w] + 1
    /\ wpc'[w] = "exec"
    /\ execs'[w] = execs[w]
    /\ toolResult'[w] = NoResult
    /\ outcome = "text"
        => /\ generated'[w] = GeneratedTests(attempt[w] + 1)
           /\ errorGuidance'[w] = Guidance(errorMessage[w])
    /\ outcome = "raised"
        => generated'[w] = RegenerationFallbackTemplate(attempt[w] + 1)
    /\ outcome = "threw" => generated'[w] = generated[w]

\* C30 as stated. After a failed execution with attempt number n < 3 the
\* loop makes exactly one regeneration call with that attempt's error text,
\* overwrites the artifact with its result, increments the attempt counter
\* and executes the overwritten artifact; after a failed execution with
\* n = 3 it makes no regeneration call; a backend error is not retried.
C30_RegenerationStep_Stated ==
    [][\A w \in Workers :
        /\ \A run \in OutcomeRuns :
            (ToolExecutes(w, run) /\ ~IsSuccess(run)) => AfterFailedExecution(w, run)
        /\ \A outcome \in GenOutcomes : \A wrote \in BOOLEAN :
            ToolRegenerates(w, outcome, wrote)
            => /\ OneRegeneration(w, outcome)
               /\ generated'[w].attempt = attempt'[w]
               /\ artifact' = generated'[w]]_vars

\* C30 amended. The same, except that the artifact is overwritten with the
\* result of the regeneration call only when the call returned one and the
\* write succeeded; otherwise the artifact is left as it was and the next
\* attempt executes it again.
C30_RegenerationStep ==
    /\ [][\A w \in Workers :
            /\ \A run \in OutcomeRuns :
                (ToolExecutes(w, run) /\ ~IsSuccess(run)) => AfterFailedExecution(w, run)
            /\ \A outcome \in GenOutcomes : \A wrote \in BOOLEAN :
                ToolRegenerates(w, outcome, wrote)
                => /\ OneRegeneration(w, outcome)
                   /\ outcome # "threw" => generated'[w].attempt = attempt'[w]
                   /\ artifact' = (IF wrote THEN generated'[w] ELSE artifact)]_vars
    /\ [](\A w \in Workers :
            /\ wpc[w] = "regen" => (attempt[w] < maxRetries /\ execs[w] = attempt[w])
            /\ wpc[w] \in LoopPcs => generated[w].attempt <= attempt[w])

\* The backend raised in the regeneration for the third attempt: the
\* placeholder was written once and the third execution is about to run it.
C30_Witness ==
    /\ wpc[1] = "exec"
    /\ attempt[1] = maxRetries
    /\ execs[1] = maxRetries - 1
    /\ artifact = RegenerationFallbackTemplate(maxRetries)

\* C31. A failure of the embedding is fatal and not retried: the embedding is
\* reached only from the validation, once in an invocation, and it is left
\* for the search or for the return; the step in which it fails returns the
\* error result and leaves the artifact, the generated content, the
\* executions and the worker's output as they were; while that result
\* stands, the invocation is over, it has generated nothing and executed no
\* test, and the artifact changes no more.
C31_EmbeddingFatal ==
    /\ [][\A w \in Workers :
            /\ (wpc'[w] = "embed" /\ wpc[w] # "embed") => wpc[w] = "validate"
            /\ (wpc[w] = "embed" /\ wpc'[w] # "embed")
                => wpc'[w] \in {"search", "turn"}
            /\ ToolEmbeds(w, TRUE)
                => (wpc'[w] = "search" /\ toolResult'[w] = NoResult)
            /\ ToolEmbeds(w, FALSE)
                => /\ toolResult'[w] = ErrorResult("Failed to generate embedding")
                   /\ wpc'[w] = "turn"
                   /\ UNCHANGED <<artifact, generated, execs, stdoutPipe>>
            /\ (/\ toolResult[w] = ErrorResult("Failed to generate embedding")
                /\ toolResult'[w] = toolResult[w])
                => UNCHANGED <<artifact, wpc, generated, execs>>]_vars
    /\ [](\A w \in Workers :
            toolResult[w] = ErrorResult("Failed to generate embedding")
            => /\ wpc[w] = "turn"
               /\ generated[w] = NoFile
               /\ execs[w] = 0)

\* An invocation has written and passed its tests; the next one has failed at
\* its embedding and has returned with only its tool_call envelope sent, the
\* artifact of the first still at the path.
C31_Witness ==
    /\ toolResult[1] = ErrorResult("Failed to generate embedding")
    /\ SinceToolCall(stdoutPipe[1]) = <<>>
    /\ artifact = GeneratedTests(1)

\* The overwrite notice and the write that follows it, as safety: the check
\* of the test path sends the notice exactly when a file is there and
\* leaves the path as it is; the write is made from the state that check
\* leaves, the worker's input still empty, and a write that succeeds puts the
\* generated content at the path and starts the first execution.
NoticeThenWrite ==
    /\ [][\A w \in Workers :
            /\ (wpc[w] = "stat" /\ wpc'[w] # "stat")
                => /\ wpc'[w] = "write"
                   /\ artifact' = artifact
                   /\ Appended(w) = (IF artifact # NoFile
                                     THEN <<OverwriteNotice>> ELSE <<>>)
            /\ (wpc[w] = "write" /\ wpc'[w] # "write")
                => /\ stdinPipe[w] = <<>>
                   /\ \/ /\ wpc'[w] = "exec"
                         /\ artifact' = generated[w]
                         /\ attempt'[w] = 1
                         /\ execs'[w] = 0
                      \/ /\ toolResult'[w] = ErrorResult("write failed")
                         /\ artifact' = artifact]_vars
    /\ [](\A w \in Workers :
            wpc[w] \in {"stat", "write"}
            => /\ artifact \in InitialFiles
               /\ wpc[w] = "write"
                    => (artifact # NoFile <=> Last(stdoutPipe[w]) = OverwriteNotice))

C33_OneTrailingAssistant ==
    /\ [][(Len(messages') > Len(messages) /\ Last(messages').Role = "assistant")
            => /\ ~LastIsAssistant
               /\ Len(messages') = Len(messages) + 1]_vars
    /\ [](\A i \in 1..(Len(messages) - 1) :
            ~(messages[i].Role = "assistant" /\ messages[i + 1].Role = "assistant"))

\* An assistant entry has been appended after an entry of another role that
\* follows an earlier assistant entry.
C33_Witness ==
    /\ LastIsAssistant
    /\ \E i \in 1..(Len(messages) - 2) : messages[i].Role = "assistant"

\* C34. agentReady is true exactly in the chat state, and the chat state is
\* never left: no step takes the client back to the API-key state or clears
\* agentReady.
C34_ReadyIffActive ==
    /\ [](agentReady <=> state = "StateChat")
    /\ [][/\ state = "StateChat" => state' = "StateChat"
          /\ agentReady => agentReady']_vars

\* The client is in the chat state and ready after a chat send and a stream
\* error that followed the handshake.
C34_Witness ==
    /\ state = "StateChat"
    /\ agentReady
    /\ nChats >= 1
    /\ err = Closed

\* C35. At most one worker spawned by the client is alive, and the client
\* holds every running worker: the Model's agentProcess is that worker, or
\* the agentStartedMsg that carries it is still to be handled.
C35_OneWorkerAlive ==
    /\ Cardinality({w \in Workers : alive[w]}) <= 1
    /\ \A w \in Workers :
        alive[w] => \/ agentProcess = w
                    \/ \E msg \in BagToSet(inbox) :
                            msg.kind = "agentStarted" /\ msg.w = w

\* C36. Every accepted chat send is followed by the end of the request: from
\* every state of the chat in which isProcessing is true, a state is reached
\* in which it is false (or the transcript of this model is full), the
\* commands being run, the messages delivered, and the worker ending every
\* turn with a response, an error envelope or the end of its output.
C36_ProcessingEnds ==
    (state = "StateChat" /\ isProcessing) ~> (~isProcessing \/ ~Room)

\* C37 as stated. After a response with content and a status other than
\* "initialized" is folded, the last entry of the transcript is an assistant
\* entry with that content, whatever the transcript was.
C37_LastIsResponse_Stated ==
    [][\A msg \in BagToSet(inbox) :
        (/\ IsPlainResponse(msg)
         /\ msg.line.content # <<>>
         /\ HandleAgentResponse(msg))
        => /\ Last(messages').Role = "assistant"
           /\ Last(messages').Content = msg.line.content]_vars

\* C37 amended. After such a fold the last entry is an assistant entry: with
\* the response's content when the last entry before the fold was no
\* assistant entry, with the content it had when it was one (the content of
\* a response that differs from it is not shown).
C37_LastIsResponse ==
    [][\A msg \in BagToSet(inbox) :
        (/\ IsPlainResponse(msg)
         /\ msg.line.content # <<>>
         /\ HandleAgentResponse(msg))
        => /\ Last(messages').Role = "assistant"
           /\ Last(messages').Content =
                (IF LastIsAssistant THEN Last(messages).Content
                 ELSE msg.line.content)]_vars

\* After the request has ended, a further response is about to be folded
\* into a transcript whose last entry is an assistant entry with another
\* content.
C37_Witness ==
    \E msg \in BagToSet(inbox) :
        /\ IsPlainResponse(msg)
        /\ msg.line.content # <<>>
        /\ ~isProcessing
        /\ LastIsAssistant
        /\ Last(messages).Content # msg.line.content
        /\ ENABLED HandleAgentResponse(msg)

\* C38. A success is returned only for an artifact the backend produced: when
\* an invocation has returned test results with success true, the file at
\* the test path is a generated one, never a placeholder of the fallback.
C38_SuccessOnlyGenerated ==
    \A w \in Workers :
        (toolResult[w].kind = "testResults" /\ toolResult[w].success)
            => artifact.kind = "generated"

====
